---- MODULE Spec2Model ----
(***************************************************************************)
(* A model of mcpx: the sync engine (sync.py), the platform adapters       *)
(* (platforms/*.py), the backup manager (utils/backup.py), the validator   *)
(* and the stdio health checker (utils/validation.py).                     *)
(*                                                                         *)
(* Text is modelled as a sequence of symbols.  A symbol is either an       *)
(* opaque chunk of ordinary characters ("npx"), one special character      *)
(* (".", "_", "\"", "\\", "\n", " "), or one ${VAR} placeholder.           *)
(* A Python Optional is a sequence of length 0 (None) or 1 (a value).      *)
(* A Python dict is a function; a JSON object with optional keys is a      *)
(* function whose DOMAIN is the set of keys present.                       *)
(***************************************************************************)
EXTENDS Integers, Sequences, FiniteSets, TLC

\* ------------------------------------------------------------------ bounds
MaxTime == 2
MaxFaults == 1
\* Number of platforms whose file is missing or malformed when sync starts.
MaxOddFiles == 1
\* Number of server names the arguments of merge_servers are drawn from.
MaxNames == 2
\* Number of create_backup calls, and the last second, of a backup scenario.
MaxCreated == 6
MaxBackupTime == 6
\* Number of backups per prefix in the directory handed to cleanup_old_backups.
MaxStamp == 3

\* --------------------------------------------------------- generic helpers
None == <<>>
Some(x) == <<x>>

EmptyDict == <<>>

Range(s) == {s[i] : i \in 1..Len(s)}

RECURSIVE SetToSeq(_)
SetToSeq(S) ==
  IF S = {} THEN <<>>
  ELSE LET x == CHOOSE y \in S : TRUE IN <<x>> \o SetToSeq(S \ {x})

RECURSIVE Flatten(_)
Flatten(ss) == IF ss = <<>> THEN <<>> ELSE Head(ss) \o Flatten(Tail(ss))

\* Python truthiness of an Optional[str]: None and "" are falsy.
Truthy(opt) == opt # None /\ opt[1] # <<>>

\* ------------------------------------------------------------ environment
\* os.environ: the variables that are set, with their values.
Environ == [SETVAR |-> <<"secret">>]

\* The ${VAR} placeholders that occur as symbols, with the name they match.
PlaceholderName == [a \in {"${SETVAR}", "${UNSETVAR}"} |->
                      IF a = "${SETVAR}" THEN "SETVAR" ELSE "UNSETVAR"]

\* expand_env_vars(value): every ${VAR} whose VAR is set is replaced by the
\* variable's value; a placeholder of an unset variable stays as it is.
expand_env_vars(value) ==
  Flatten([i \in 1..Len(value) |->
             IF /\ value[i] \in DOMAIN PlaceholderName
                /\ PlaceholderName[value[i]] \in DOMAIN Environ
             THEN Environ[PlaceholderName[value[i]]]
             ELSE <<value[i]>>])

\* re.finditer(r'\$\{([A-Z_][A-Z0-9_]*)\}', text): group(1) of each match.
EnvVarRefs(text) ==
  SelectSeq([i \in 1..Len(text) |->
               IF text[i] \in DOMAIN PlaceholderName
               THEN PlaceholderName[text[i]] ELSE ""],
            LAMBDA n : n # "")

\* shutil.which: the commands found on the executable search path.
PathCommands == {<<"npx">>, <<"node">>}

\* ------------------------------------------------------------ server model
MCPServer(n, t, c, a, e, u, h) ==
  [name |-> n, type |-> t, command |-> c, args |-> a, env |-> e,
   url |-> u, headers |-> h]

StdioServer(n, c, a, e) == MCPServer(n, "stdio", Some(c), a, e, None, EmptyDict)
HttpServer(n, u, h) == MCPServer(n, "http", None, <<>>, EmptyDict, Some(u), h)

\* -------------------------------------------------------------- validator
ValidationError(n, m, s) == [server_name |-> n, message |-> m, severity |-> s]

validate_command_exists(command) ==
  IF command \notin PathCommands
  THEN Some(ValidationError(<<>>, <<"Command not found: ">> \o command, "error"))
  ELSE None

\* urlparse(url).scheme: the text before the first ":" (lower-cased letters).
UrlScheme(url) == IF Len(url) >= 2 /\ url[2] = ":" THEN url[1] ELSE ""
\* urlparse(url).netloc: the text between "//" and the next "/".
UrlNetloc(url) ==
  IF Len(url) >= 4 /\ url[2] = ":" /\ url[3] = "//" /\ url[4] # "/"
  THEN url[4] ELSE ""

validate_url(url) ==
  IF UrlScheme(url) \notin {"http", "https"}
  THEN Some(ValidationError(<<>>, <<"URL must use HTTP or HTTPS scheme: ">> \o url, "error"))
  ELSE IF UrlNetloc(url) = ""
  THEN Some(ValidationError(<<>>, <<"URL missing host/domain: ">> \o url, "error"))
  ELSE None

\* One warning per reference to an unset variable in text, naming the field.
UnsetWarnings(name, text, fieldLabel) ==
  LET refs == SelectSeq(EnvVarRefs(text), LAMBDA v : v \notin DOMAIN Environ)
  IN [i \in 1..Len(refs) |->
        ValidationError(name,
                        <<"Environment variable '$", refs[i], "' not set (referenced in ">>
                          \o fieldLabel \o <<")">>,
                        "warning")]

DictWarnings(name, d, label) ==
  LET keys == SetToSeq(DOMAIN d)
  IN Flatten([i \in 1..Len(keys) |->
                UnsetWarnings(name, d[keys[i]], <<label, ".">> \o keys[i])])

validate_server(server) ==
  IF server.type = "stdio" THEN
    IF Truthy(server.command) THEN
      LET cmd_error == validate_command_exists(server.command[1])
      IN (IF cmd_error # None
          THEN <<ValidationError(server.name, cmd_error[1].message, cmd_error[1].severity)>>
          ELSE <<>>)
         \o UnsetWarnings(server.name, server.command[1], <<"command">>)
         \o Flatten([i \in 1..Len(server.args) |->
                       UnsetWarnings(server.name, server.args[i], <<"args">>)])
         \o DictWarnings(server.name, server.env, "env")
    ELSE <<>>
  ELSE IF server.type = "http" THEN
    IF Truthy(server.url) THEN
      LET url_error == validate_url(server.url[1])
      IN (IF url_error # None
          THEN <<ValidationError(server.name, url_error[1].message, url_error[1].severity)>>
          ELSE <<>>)
         \o UnsetWarnings(server.name, server.url[1], <<"url">>)
         \o DictWarnings(server.name, server.headers, "headers")
    ELSE <<>>
  ELSE <<>>

\* ------------------------------------------------------ platform registry
\* ALL_PLATFORMS, by the adapters' name property, in registry order.
ALL_PLATFORMS ==
  <<"Claude Code", "Gemini CLI", "Codex CLI", "Cline", "Roo Code", "Kilo Code">>

Platforms == Range(ALL_PLATFORMS)

\* The base name of each adapter's default config file.
ClaudeConfigFile == <<".", "claude", ".", "json">>
GeminiConfigFile == <<"settings", ".", "json">>
CodexConfigFile == <<"config", ".", "toml">>
KiloConfigFile == <<"mcp", "_", "settings", ".", "json">>
\* ClineAdapter and RooAdapter (platforms/cline.py, platforms/roo.py).
ClineConfigFile == <<"cline", "_", "mcp", "_", "settings", ".", "json">>
RooConfigFile == <<"cline", "_", "mcp", "_", "settings", ".", "json">>

ConfigFileName ==
  [p \in Platforms |->
     CASE p = "Claude Code" -> ClaudeConfigFile
       [] p = "Gemini CLI"  -> GeminiConfigFile
       [] p = "Codex CLI"   -> CodexConfigFile
       [] p = "Cline"       -> ClineConfigFile
       [] p = "Roo Code"    -> RooConfigFile
       [] p = "Kilo Code"   -> KiloConfigFile]

\* ------------------------------------------------------------ file system
\* A platform file: exists, ok (its text parses as JSON / TOML), other (the
\* top-level keys or sections that are not the MCP-server section), servers
\* (JSON: the mcpServers object), blocks (TOML: the [mcp_servers.*] tables
\* as written text).
File(ok, other, servers, blocks) ==
  [exists |-> TRUE, ok |-> ok, other |-> other, servers |-> servers, blocks |-> blocks]

NoFile ==
  [exists |-> FALSE, ok |-> TRUE, other |-> EmptyDict, servers |-> EmptyDict,
   blocks |-> <<>>]

\* The result of a call that may raise.
Ok(v) == [raised |-> FALSE, value |-> v]
Raise(e) == [raised |-> TRUE, value |-> e]

\* ----------------------------------------------------- platforms/base.py
DictWith(d, k, v) == [x \in DOMAIN d \cup {k} |-> IF x = k THEN v ELSE d[x]]
DictGet(d, k, default) == IF k \in DOMAIN d THEN d[k] ELSE default

server_to_dict(server) ==
  LET base == [type |-> server.type]
  IN IF server.type = "stdio" THEN
       LET d == [type |-> server.type, command |-> server.command, args |-> server.args]
       IN IF server.env # EmptyDict THEN DictWith(d, "env", server.env) ELSE d
     ELSE IF server.type = "http" THEN
       LET d1 == IF Truthy(server.url) THEN DictWith(base, "url", server.url) ELSE base
       IN IF server.headers # EmptyDict THEN DictWith(d1, "headers", server.headers) ELSE d1
     ELSE base

dict_to_server(name, data) ==
  LET server_type == DictGet(data, "type", "stdio")
  IN IF server_type = "stdio" THEN
       IF "command" \notin DOMAIN data
       THEN Raise("ValueError: missing required 'command' field")
       ELSE Ok(MCPServer(name, "stdio", data["command"],
                         DictGet(data, "args", <<>>), DictGet(data, "env", EmptyDict),
                         None, EmptyDict))
     ELSE IF server_type = "http" THEN
       IF "url" \notin DOMAIN data
       THEN Raise("ValueError: missing required 'url' field for http type")
       ELSE Ok(MCPServer(name, "http", None, <<>>, EmptyDict,
                         data["url"], DictGet(data, "headers", EmptyDict)))
     ELSE Raise("ValueError: invalid type")

\* The dict comprehension {name: dict_to_server(name, d) for name, d in items}:
\* the first entry that raises aborts the whole comprehension.
LoadEntries(entries) ==
  LET conv == [n \in DOMAIN entries |-> dict_to_server(n, entries[n])]
      bad == {n \in DOMAIN entries : conv[n].raised}
  IN IF bad # {}
     THEN Raise(conv[CHOOSE n \in bad : TRUE].value)
     ELSE Ok([n \in DOMAIN entries |-> conv[n].value])

\* read_json_file on a file that exists: the parsed top-level object, or
\* ValueError when the text is not JSON.
read_json_file(file) ==
  IF ~file.exists THEN Ok(NoFile)
  ELSE IF ~file.ok THEN Raise("ValueError: Invalid JSON")
  ELSE Ok(file)

\* write_json_file: json.dump of the top-level object (other keys + mcpServers).
write_json_file(other, mcpServers) == File(TRUE, other, mcpServers, <<>>)

\* ------------------------------------------- JSON adapters: load and save
\* ClaudeAdapter.load, GeminiAdapter.load, KiloAdapter.load (same code).
JsonLoad(file) ==
  IF ~file.exists THEN Ok(EmptyDict)
  ELSE LET data == read_json_file(file)
       IN IF data.raised THEN data ELSE LoadEntries(data.value.servers)

\* The save of a JSON adapter, mcpServers being the section it builds: returns
\* the outcome and the file that is on disk afterwards.
JsonSave(file, mcpServers) ==
  LET existing_data == read_json_file(file)
  IN IF existing_data.raised
     THEN [raised |-> TRUE, value |-> existing_data.value, file |-> file]
     ELSE [raised |-> FALSE, value |-> "None",
           file |-> write_json_file(existing_data.value.other, mcpServers)]

PlainEntries(servers) == [n \in DOMAIN servers |-> server_to_dict(servers[n])]
\* KiloAdapter.save: every entry gets the VS Code defaults.
VsCodeEntry(d) == DictWith(DictWith(d, "disabled", FALSE), "alwaysAllow", <<>>)
VsCodeEntries(servers) == [n \in DOMAIN servers |-> VsCodeEntry(server_to_dict(servers[n]))]

ClaudeSave(file, servers) == JsonSave(file, PlainEntries(servers))
GeminiSave(file, servers) == JsonSave(file, PlainEntries(servers))
KiloSave(file, servers) == JsonSave(file, VsCodeEntries(servers))
\* ClineAdapter and RooAdapter (platforms/cline.py, platforms/roo.py).
ClineSave(file, servers) == JsonSave(file, VsCodeEntries(servers))
RooSave(file, servers) == JsonSave(file, VsCodeEntries(servers))

\* ------------------------------------------------ utils/toml_writer.py
\* value.replace("\\", "\\\\").replace('"', '\\"'), symbol by symbol.
TomlEscape(text) ==
  Flatten([i \in 1..Len(text) |->
             IF text[i] = "\\" THEN <<"\\", "\\">>
             ELSE IF text[i] = "\"" THEN <<"\\", "\"">>
             ELSE <<text[i]>>])

TomlQuote(text) == <<"\"">> \o TomlEscape(text) \o <<"\"">>

_format_array(items) == [i \in 1..Len(items) |-> TomlQuote(items[i])]

_format_inline_table(data) ==
  LET keys == SetToSeq(DOMAIN data)
  IN [i \in 1..Len(keys) |-> [key |-> keys[i], val |-> TomlQuote(data[keys[i]])]]

\* One [mcp_servers.<name>] table as written: the header text, the command
\* literal, and the args / env lines when they are not empty.
TomlBlock(server_name, server_config) ==
  [header |-> <<"mcp_servers", ".">> \o server_name,
   command |-> Some(TomlQuote(DictGet(server_config, "command", <<>>))),
   args |-> IF DictGet(server_config, "args", <<>>) # <<>>
            THEN Some(_format_array(server_config["args"])) ELSE None,
   env |-> IF DictGet(server_config, "env", EmptyDict) # EmptyDict
           THEN Some(_format_inline_table(server_config["env"])) ELSE None]

write_toml_simple(data) ==
  LET mcp_servers == DictGet(data, "mcp_servers", EmptyDict)
      names == SetToSeq(DOMAIN mcp_servers)
  IN File(TRUE, EmptyDict, EmptyDict,
          [i \in 1..Len(names) |-> TomlBlock(names[i], mcp_servers[names[i]])])

\* ------------------------------------------------- tomli: reading it back
\* Symbols that cannot be part of a bare TOML key.
NotBareKey == {".", " ", "\"", "\\", "\n"} \cup DOMAIN PlaceholderName

RECURSIVE SplitDots(_, _)
\* text split on ".", cur being the segment under construction.
SplitDots(text, cur) ==
  IF text = <<>> THEN <<cur>>
  ELSE IF Head(text) = "." THEN <<cur>> \o SplitDots(Tail(text), <<>>)
  ELSE SplitDots(Tail(text), Append(cur, Head(text)))

\* A dotted key of bare keys: its path, or a decode error.
TomlParseKey(text) ==
  LET segs == SplitDots(text, <<>>)
  IN IF \E i \in 1..Len(segs) :
          segs[i] = <<>> \/ \E j \in 1..Len(segs[i]) : segs[i][j] \in NotBareKey
     THEN Raise("TOMLDecodeError: invalid key")
     ELSE Ok(segs)

RECURSIVE TomlScanString(_, _, _)
\* The body of a basic string from position i on: the closing quote must be
\* the last symbol, a backslash must start an escape, a raw newline is an error.
TomlScanString(text, i, acc) ==
  IF i > Len(text) THEN Raise("TOMLDecodeError: unterminated string")
  ELSE IF text[i] = "\"" THEN
    IF i = Len(text) THEN Ok(acc) ELSE Raise("TOMLDecodeError: text after string")
  ELSE IF text[i] = "\\" THEN
    IF i < Len(text) /\ text[i + 1] \in {"\\", "\""}
    THEN TomlScanString(text, i + 2, Append(acc, text[i + 1]))
    ELSE Raise("TOMLDecodeError: invalid escape")
  ELSE IF text[i] = "\n" THEN Raise("TOMLDecodeError: control character")
  ELSE TomlScanString(text, i + 1, Append(acc, text[i]))

TomlParseString(text) ==
  IF Len(text) >= 1 /\ text[1] = "\"" THEN TomlScanString(text, 2, <<>>)
  ELSE Raise("TOMLDecodeError: invalid value")

\* A nested table where a string was expected.
NestedTable == <<"{table}">>

\* One written block parsed: its header path and its key/value pairs.
TomlParseBlock(block) ==
  LET path == TomlParseKey(block.header)
      command == IF block.command = None THEN Ok(<<>>)
                 ELSE TomlParseString(block.command[1])
      args == IF block.args = None THEN <<>>
              ELSE [i \in 1..Len(block.args[1]) |-> TomlParseString(block.args[1][i])]
      pairs == IF block.env = None THEN <<>> ELSE block.env[1]
      keys == [i \in 1..Len(pairs) |-> TomlParseKey(pairs[i].key)]
      vals == [i \in 1..Len(pairs) |-> TomlParseString(pairs[i].val)]
      bad == \/ path.raised \/ command.raised
             \/ \E i \in 1..Len(args) : args[i].raised
             \/ \E i \in 1..Len(pairs) : keys[i].raised \/ vals[i].raised
      d0 == IF block.command = None THEN EmptyDict
            ELSE [command |-> Some(command.value)]
      d1 == IF block.args = None THEN d0
            ELSE DictWith(d0, "args", [i \in 1..Len(args) |-> args[i].value])
      envd == [k \in {keys[i].value[1] : i \in 1..Len(pairs)} |->
                 LET i == CHOOSE j \in 1..Len(pairs) : keys[j].value[1] = k
                 IN IF Len(keys[i].value) = 1 THEN vals[i].value ELSE NestedTable]
      d2 == IF block.env = None THEN d1 ELSE DictWith(d1, "env", envd)
  IN IF bad THEN Raise("TOMLDecodeError") ELSE Ok([path |-> path.value, data |-> d2])

\* tomli.load(f).get("mcp_servers", {}): the tables directly under
\* mcp_servers.  A header with a longer path defines a sub-table of the entry
\* named by its second segment.
TomlLoadServers(blocks) ==
  LET parsed == [i \in 1..Len(blocks) |-> TomlParseBlock(blocks[i])]
      Idx == 1..Len(blocks)
  IN IF \E i \in Idx : parsed[i].raised THEN Raise("ValueError: Invalid TOML")
     ELSE LET top == {parsed[i].value.path[2] : i \in Idx}
              direct(n) == {i \in Idx : parsed[i].value.path = <<<<"mcp_servers">>, n>>}
          IN Ok([n \in top |->
                   IF direct(n) # {}
                   THEN parsed[CHOOSE i \in direct(n) : TRUE].value.data
                   ELSE [subtable |-> TRUE]])

\* ------------------------------------------------------ platforms/codex.py
CodexLoad(file) ==
  IF ~file.exists THEN Ok(EmptyDict)
  ELSE IF ~file.ok THEN Raise("ValueError: Invalid TOML")
  ELSE LET mcp_servers == TomlLoadServers(file.blocks)
       IN IF mcp_servers.raised THEN mcp_servers ELSE LoadEntries(mcp_servers.value)

\* CodexAdapter.save: the existing file is not read; only stdio servers are
\* written.  command.replace on a None command raises before anything is written.
CodexSave(file, servers) ==
  LET stdio_servers == {n \in DOMAIN servers : servers[n].type = "stdio"}
      mcp_servers_dict ==
        [n \in stdio_servers |->
           LET d == [command |-> IF servers[n].command = None THEN <<>>
                                 ELSE servers[n].command[1],
                     args |-> servers[n].args]
           IN IF servers[n].env # EmptyDict THEN DictWith(d, "env", servers[n].env) ELSE d]
  IN IF \E n \in stdio_servers : servers[n].command = None
     THEN [raised |-> TRUE, value |-> "AttributeError: 'NoneType' has no attribute 'replace'",
           file |-> file]
     ELSE [raised |-> FALSE, value |-> "None",
           file |-> write_toml_simple([mcp_servers |-> mcp_servers_dict])]

\* ------------------------------------------------------- adapter dispatch
ClaudeLoad(file) == JsonLoad(file)
GeminiLoad(file) == JsonLoad(file)
KiloLoad(file) == JsonLoad(file)
ClineLoad(file) == JsonLoad(file)
RooLoad(file) == JsonLoad(file)

AdapterLoad(p, file) ==
  CASE p = "Claude Code" -> ClaudeLoad(file)
    [] p = "Gemini CLI"  -> GeminiLoad(file)
    [] p = "Codex CLI"   -> CodexLoad(file)
    [] p = "Cline"       -> ClineLoad(file)
    [] p = "Roo Code"    -> RooLoad(file)
    [] p = "Kilo Code"   -> KiloLoad(file)

AdapterSave(p, file, servers) ==
  CASE p = "Claude Code" -> ClaudeSave(file, servers)
    [] p = "Gemini CLI"  -> GeminiSave(file, servers)
    [] p = "Codex CLI"   -> CodexSave(file, servers)
    [] p = "Cline"       -> ClineSave(file, servers)
    [] p = "Roo Code"    -> RooSave(file, servers)
    [] p = "Kilo Code"   -> KiloSave(file, servers)

\* config_path property: the path when the file exists, else None.
config_path(file) == IF file.exists THEN Some("path") ELSE None

\* -------------------------------------------------------- utils/backup.py
max_backups_per_platform == 5

\* A directory entry of the backup directory.  The name stem_<stamp><ext> is
\* kept in parts: stamp is None for a name without a _YYYYMMDD_HHMMSS part.
BackupName(stem, stamp, ext) == [stem |-> stem, stamp |-> stamp, ext |-> ext]
DirEntry(name, isFile, content) == [name |-> name, isFile |-> isFile, content |-> content]

\* filename.replace(".", "_").split("_")[0]
RECURSIVE LeadingToken(_)
LeadingToken(filename) ==
  IF filename = <<>> \/ Head(filename) \in {".", "_"} THEN <<>>
  ELSE <<Head(filename)>> \o LeadingToken(Tail(filename))

\* Path.suffix: from the last "." on, unless that dot starts or ends the name.
PathSuffix(filename) ==
  LET dots == {i \in 2..Len(filename) : filename[i] = "."}
  IN IF dots = {} THEN <<>>
     ELSE LET i == CHOOSE d \in dots : \A e \in dots : e <= d
          IN IF i = Len(filename) THEN <<>> ELSE SubSeq(filename, i, Len(filename))

\* backup_pattern = ^(.+?)_(\d{8}_\d{6})\.(.+)$ matched against an entry name.
BackupPatternMatches(name) ==
  /\ name.stamp # None
  /\ Len(name.stem) >= 1
  /\ Len(name.ext) >= 2
  /\ name.ext[1] = "."

cleanup_old_backups_oneGroup(dir, max_backups) ==
  LET matching == {e \in dir : e.isFile /\ BackupPatternMatches(e.name)}
      excess == IF Cardinality(matching) > max_backups
                THEN Cardinality(matching) - max_backups ELSE 0
      deletable == {D \in SUBSET matching :
                      /\ Cardinality(D) = excess
                      /\ \A d \in D : \A k \in matching \ D :
                           d.name.stamp[1] <= k.name.stamp[1]}
  IN {dir \ D : D \in deletable}

\* The directories cleanup_old_backups can leave: per platform group the
\* entries after the newest max_backups are unlinked (entries with equal
\* timestamps are ordered by the directory listing).
cleanup_old_backups(dir, max_backups) ==
  LET matching == {e \in dir : e.isFile /\ BackupPatternMatches(e.name)}
      group(g) == {e \in matching : e.name.stem = g}
      groups == {e.name.stem : e \in matching}
      excess(g) == IF Cardinality(group(g)) > max_backups
                   THEN Cardinality(group(g)) - max_backups ELSE 0
      deletable == {D \in SUBSET matching :
                      \A g \in groups :
                        /\ Cardinality(D \cap group(g)) = excess(g)
                        /\ \A d \in D \cap group(g) : \A k \in group(g) \ D :
                             d.name.stamp[1] <= k.name.stamp[1]}
  IN {dir \ D : D \in deletable}

\* create_backup up to and including shutil.copy2: the directory with the new
\* entry (an entry of the same name is overwritten).
BackupNameFor(filename, timestamp) ==
  BackupName(LeadingToken(filename), Some(timestamp), PathSuffix(filename))

CopyInto_skip(dir, name, content) == dir

CopyInto(dir, name, content) ==
  {e \in dir : e.name # name} \cup {DirEntry(name, TRUE, content)}

\* create_backup(source_path, backup_dir): the set of outcomes, each the
\* raised flag and the directory afterwards.
create_backup(filename, file, dir, timestamp) ==
  IF ~file.exists
  THEN {[raised |-> TRUE, value |-> "FileNotFoundError: Source file not found", dir |-> dir]}
  ELSE {[raised |-> FALSE, value |-> BackupNameFor(filename, timestamp), dir |-> d] :
          d \in cleanup_old_backups(CopyInto(dir, BackupNameFor(filename, timestamp), file),
                                    max_backups_per_platform)}

\* ------------------------------------------------------- sync.py: merging
merge_servers_existingWins(managed, existing) ==
  [name \in DOMAIN managed \cup DOMAIN existing |->
     IF name \in DOMAIN existing THEN existing[name] ELSE managed[name]]

merge_servers(managed, existing) ==
  LET orphan_names == DOMAIN existing \ DOMAIN managed
  IN [name \in DOMAIN managed \cup orphan_names |->
        IF name \in orphan_names THEN existing[name] ELSE managed[name]]

\* merge_servers on dict objects.  heap maps a reference to the dict it holds;
\* the arguments are the references "managed" and "existing".
\* result = dict(managed): a new dict object.
ResultRef_alias == "managed"
ResultRef == "result"

merge_servers_refs(heap) ==
  LET result == ResultRef
      copied == [r \in DOMAIN heap \cup {result} |->
                   IF r = result THEN heap["managed"] ELSE heap[r]]
      orphan_names == DOMAIN copied["existing"] \ DOMAIN copied["managed"]
      stored == [name \in DOMAIN copied[result] \cup orphan_names |->
                   IF name \in orphan_names THEN copied["existing"][name]
                   ELSE copied[result][name]]
  IN [heap |-> [r \in DOMAIN copied |-> IF r = result THEN stored ELSE copied[r]],
      result |-> result]

\* SyncReport
SyncReport(synced, total) ==
  [platforms_synced |-> synced, platforms_total |-> total,
   servers_synced |-> EmptyDict, errors |-> <<>>]

add_platform_result(rep, platform_name, count) ==
  [rep EXCEPT !.platforms_synced = IF count > 0 THEN @ + 1 ELSE @,
              !.servers_synced = DictWith(@, platform_name, count)]

add_error(rep, error) == [rep EXCEPT !.errors = Append(@, error)]

\* An entry of report.errors: "<prefix>: <text>".
ErrorMsg(prefix, subject, text) == [prefix |-> prefix, subject |-> subject, text |-> text]

\* =========================================================================
\* State
\* =========================================================================
VARIABLES
  config,    \* Config.servers of the canonical config handed to sync_all
  files,     \* the platform config files, by platform
  backups,   \* the entries of the backup directory
  now,       \* the clock, in seconds
  pc,        \* sync_all: the statement about to run
  idx,       \* sync_all: position of the for loop in the registry
  report,    \* sync_all: the SyncReport
  existing,  \* sync_all: local variable existing
  merged,    \* sync_all: local variable merged
  faults,    \* number of I/O faults injected so far
  log,       \* per platform, what sync_all did to it in this pass
  files0,    \* the platform files when sync_all was called
  mergeCall, \* one call of merge_servers: its arguments and its result
  adapterOp, \* the last call of an adapter's load or save, with its outcome
  made,      \* per backup prefix, the timestamps of the backups create_backup made
  hc,        \* one call of health_check_stdio_server
  valCall,   \* one call of validate_server: its argument and its result
  cleanupCall, \* one call of cleanup_old_backups: the directory before it
  cli,       \* one run of a CLI command (sync, remove): its position and exit code
  cfgFile,   \* the canonical config file ~/.mcpx/config.json
  cfgCall,   \* one call of a function of config.py on the canonical config file
  wr         \* one write of a platform file by an adapter's save, step by step

syncVars == <<config, files, backups, now, pc, idx, report, existing, merged,
              faults, log, files0>>
extraVars == <<valCall, cleanupCall, cli, cfgFile, cfgCall, wr>>
otherVars == <<mergeCall, adapterOp, made, hc, extraVars>>
vars == <<syncVars, otherVars>>

\* ------------------------------------------------ the inputs of the model
DictOf(servers) ==
  [n \in {x.name : x \in servers} |-> CHOOSE x \in servers : x.name = n]

SrvFs == StdioServer(<<"fs">>, <<"npx">>, << <<"-y">>, <<"${UNSETVAR}">> >>, EmptyDict)
SrvApi == HttpServer(<<"api">>, <<"https", ":", "//", "host", "/mcp">>, EmptyDict)
SrvGhost == StdioServer(<<"ghost">>, <<"nocmd">>, <<>>, EmptyDict)
SrvFtp == HttpServer(<<"ftp">>, <<"ftp", ":", "//", "host">>, EmptyDict)
\* A stdio server whose command is the empty string.
SrvNoCommand == StdioServer(<<"blank">>, <<>>, <<>>, EmptyDict)

\* Canonical configs: valid ones, ones with one or two servers that fail
\* validation, and one with a server that has no command.
ConfigChoices ==
  {DictOf(ss) : ss \in {{SrvApi}, {SrvFs, SrvApi, SrvNoCommand}, {SrvGhost},
                        {SrvFs, SrvFtp},
                        {SrvFs, SrvGhost, SrvFtp}, {SrvFs, SrvApi, SrvGhost, SrvFtp}}}

\* On-disk entries a user or the tool itself wrote.
EntryOrphan ==
  [command |-> Some(<<"node">>), args |-> << <<"srv", ".", "js">> >>,
   disabled |-> TRUE, alwaysAllow |-> << <<"read_file">> >>]
EntryStale == [type |-> "stdio", command |-> Some(<<"node">>), args |-> <<>>]
EntryNoCommand == [args |-> << <<"-y">> >>]
EntryBadType == [type |-> "sse", url |-> Some(<<"https", ":", "//", "host">>)]

JsonGoodFile ==
  File(TRUE, (<<"theme">> :> <<"dark">>),
       (<<"old">> :> EntryOrphan) @@ (<<"fs">> :> EntryStale), <<>>)
JsonMalformedFile ==
  File(TRUE, (<<"theme">> :> <<"dark">>),
       (<<"old">> :> EntryOrphan) @@ (<<"bad">> :> EntryNoCommand), <<>>)
JsonBadTypeFile ==
  File(TRUE, EmptyDict, (<<"old">> :> EntryOrphan) @@ (<<"sse">> :> EntryBadType), <<>>)
JsonInvalidFile == File(FALSE, EmptyDict, EmptyDict, <<>>)

TomlGoodFile ==
  File(TRUE, (<<"model">> :> <<"o3">>), EmptyDict,
       <<TomlBlock(<<"old">>, [command |-> <<"node">>, args |-> << <<"srv", ".", "js">> >>])>>)
TomlMalformedFile ==
  File(TRUE, (<<"model">> :> <<"o3">>), EmptyDict,
       <<TomlBlock(<<"old">>, [command |-> <<"node">>]),
         [header |-> <<"mcp_servers", ".", "bad">>, command |-> None,
          args |-> Some(<< TomlQuote(<<"-y">>) >>), env |-> None]>>)
TomlInvalidFile == File(FALSE, EmptyDict, EmptyDict, <<>>)
\* A Codex config.toml without any [mcp_servers.*] table.
TomlBareFile == File(TRUE, (<<"model">> :> <<"o3">>), EmptyDict, <<>>)

IsToml(p) == p = "Codex CLI"

\* The files sync_all may find: missing, well-formed or with a malformed
\* entry; the Cline and Roo Code files are always well-formed.
SyncFileChoices(p) ==
  IF IsToml(p) THEN {NoFile, TomlGoodFile, TomlMalformedFile, TomlBareFile}
  ELSE IF p \in {"Cline", "Roo Code"} THEN {JsonGoodFile}
  ELSE {NoFile, JsonGoodFile, JsonMalformedFile}

SyncNormalFile(p) == IF IsToml(p) THEN TomlGoodFile ELSE JsonGoodFile

InitialBackups ==
  {DirEntry(BackupName(<<"settings">>, Some(0), <<".", "json">>), TRUE, JsonGoodFile)}

\* The value of a variable that belongs to an operation that is not running.
NoCall == [op |-> "none"]

NoLog == [backup |-> None, load |-> None, handed |-> None, pre |-> None, error |-> None]

\* The canonical config file: exists, ok (its text parses as JSON), mcpx (the
\* "mcpx" section, when present, with its version when present) and servers
\* (the "servers" section, when present: the stored entry of every name).
CfgFile(ok, mcpx, servers) == [exists |-> TRUE, ok |-> ok, mcpx |-> mcpx, servers |-> servers]
NoCfgFile == [exists |-> FALSE, ok |-> TRUE, mcpx |-> None, servers |-> None]

\* No validate_server call, cleanup call or CLI command is under way.
ExtraIdle ==
  /\ valCall = NoCall
  /\ cleanupCall = NoCall
  /\ cli = NoCall
  /\ cfgFile = NoCfgFile
  /\ cfgCall = NoCall
  /\ wr = NoCall

\* =========================================================================
\* sync_all (sync.py)
\* =========================================================================
Platform == ALL_PLATFORMS[idx]

\* for err in errors: if err.severity == "error": validation_errors.append(...)
ValidationMessages(servers) ==
  LET names == SetToSeq(DOMAIN servers)
      errorsOf(n) == SelectSeq(validate_server(servers[n]),
                               LAMBDA err : err.severity = "error")
  IN Flatten([i \in 1..Len(names) |->
                [j \in 1..Len(errorsOf(names[i])) |->
                   ErrorMsg("Server", names[i], errorsOf(names[i])[j].message)]])

RECURSIVE AddErrors(_, _)
AddErrors(rep, msgs) ==
  IF msgs = <<>> THEN rep ELSE AddErrors(add_error(rep, Head(msgs)), Tail(msgs))

\* if validation_errors: ... return report
ShortCircuit_never(validation_errors) == FALSE
ShortCircuit(validation_errors) == validation_errors # <<>>

\* The except clause of the loop body: record the error and a zero count.
HandleException(rep, platform_name, e) ==
  add_platform_result(add_error(rep, ErrorMsg(platform_name, <<>>, <<e>>)),
                      platform_name, 0)

\* continue / the end of the except clause: the loop goes on with the next
\* platform of the registry.
ContinueLoop_abort(i) == Len(ALL_PLATFORMS) + 1
ContinueLoop(i) == i + 1

SyncInit ==
  /\ config \in ConfigChoices
  /\ files \in [Platforms -> UNION {SyncFileChoices(p) : p \in Platforms}]
  /\ \A p \in Platforms : files[p] \in SyncFileChoices(p)
  /\ Cardinality({p \in Platforms : files[p] # SyncNormalFile(p)}) <= MaxOddFiles
  /\ backups = InitialBackups
  /\ now = 1
  /\ pc = "call"
  /\ idx = 0
  /\ report = SyncReport(0, 0)
  /\ existing = EmptyDict
  /\ merged = EmptyDict
  /\ faults = 0
  /\ log = [p \in Platforms |-> NoLog]
  /\ files0 = files
  /\ mergeCall = NoCall
  /\ adapterOp = NoCall
  /\ made = EmptyDict
  /\ hc = NoCall
  /\ ExtraIdle

\* Lines 113-129: build the report, validate every server, return early on
\* any error-severity result.
SyncValidate ==
  /\ pc = "call"
  /\ LET validation_errors == ValidationMessages(config)
         fresh == SyncReport(0, Len(ALL_PLATFORMS))
     IN IF ShortCircuit(validation_errors)
        THEN /\ report' = AddErrors(fresh, validation_errors)
             /\ pc' = "done"
             /\ idx' = idx
        ELSE /\ report' = fresh
             /\ pc' = "path"
             /\ idx' = 1
  /\ UNCHANGED <<config, files, backups, now, existing, merged, faults, log, files0>>
  /\ UNCHANGED otherVars

\* The for loop is exhausted: return report.
SyncReturn ==
  /\ pc = "path"
  /\ idx > Len(ALL_PLATFORMS)
  /\ pc' = "done"
  /\ UNCHANGED <<config, files, backups, now, idx, report, existing, merged,
                 faults, log, files0>>
  /\ UNCHANGED otherVars

\* Lines 135-140: skip a platform without a config path.
SyncCheckPath ==
  /\ pc = "path"
  /\ idx <= Len(ALL_PLATFORMS)
  /\ IF config_path(files[Platform]) = None
     THEN /\ report' = add_platform_result(
                         add_error(report,
                           ErrorMsg(Platform, <<>>,
                                    <<"config path not found (platform not installed?)">>)),
                         Platform, 0)
          /\ log' = [log EXCEPT ![Platform].error = Some("no path")]
          /\ idx' = ContinueLoop(idx)
          /\ pc' = "path"
     ELSE /\ pc' = "backup"
          /\ UNCHANGED <<report, log, idx>>
  /\ UNCHANGED <<config, files, backups, now, existing, merged, faults, files0>>
  /\ UNCHANGED otherVars

\* Lines 143-144: create_backup; an OSError of the copy counts as a fault.
SyncBackup ==
  /\ pc = "backup"
  /\ \/ \E out \in create_backup(ConfigFileName[Platform], files[Platform], backups, now) :
          IF out.raised
          THEN /\ report' = HandleException(report, Platform, out.value)
               /\ log' = [log EXCEPT ![Platform].error = Some("backup")]
               /\ idx' = ContinueLoop(idx)
               /\ pc' = "path"
               /\ UNCHANGED <<backups, faults>>
          ELSE /\ backups' = out.dir
               /\ log' = [log EXCEPT ![Platform].backup = Some(files[Platform])]
               /\ pc' = "load"
               /\ UNCHANGED <<report, idx, faults>>
     \/ /\ faults < MaxFaults
        /\ faults' = faults + 1
        /\ report' = HandleException(report, Platform, "OSError: cannot copy")
        /\ log' = [log EXCEPT ![Platform].error = Some("backup")]
        /\ idx' = ContinueLoop(idx)
        /\ pc' = "path"
        /\ UNCHANGED backups
  /\ UNCHANGED <<config, files, now, existing, merged, files0>>
  /\ UNCHANGED otherVars

\* existing = platform.load(): the servers the adapter returned.
Loaded_nothing(out) == EmptyDict
Loaded(out) == out.value

\* Line 147: existing = platform.load()
SyncLoad ==
  /\ pc = "load"
  /\ LET out == AdapterLoad(Platform, files[Platform])
     IN /\ log' = [log EXCEPT ![Platform].load = Some(out),
                              ![Platform].error = IF out.raised THEN Some("load") ELSE @]
        /\ IF out.raised
           THEN /\ report' = HandleException(report, Platform, out.value)
                /\ idx' = ContinueLoop(idx)
                /\ pc' = "path"
                /\ UNCHANGED existing
           ELSE /\ existing' = Loaded(out)
                /\ pc' = "merge"
                /\ UNCHANGED <<report, idx>>
  /\ UNCHANGED <<config, files, backups, now, merged, faults, files0>>
  /\ UNCHANGED otherVars

\* Line 150: merged = merge_servers(config.servers, existing)
SyncMerge ==
  /\ pc = "merge"
  /\ merged' = merge_servers(config, existing)
  /\ pc' = "save"
  /\ UNCHANGED <<config, files, backups, now, idx, report, existing, faults, log, files0>>
  /\ UNCHANGED otherVars

\* Lines 153-156: platform.save(merged), then record the count.  An OSError
\* when the file is opened for writing counts as a fault and leaves the file.
SyncSave ==
  /\ pc = "save"
  /\ \/ LET out == AdapterSave(Platform, files[Platform], merged)
        IN /\ files' = [files EXCEPT ![Platform] = out.file]
           /\ log' = [log EXCEPT ![Platform].handed = Some(merged),
                                 ![Platform].pre = Some(files[Platform]),
                                 ![Platform].error = IF out.raised THEN Some("save") ELSE @]
           /\ report' = IF out.raised
                        THEN HandleException(report, Platform, out.value)
                        ELSE add_platform_result(report, Platform,
                                                 Cardinality(DOMAIN merged))
           /\ UNCHANGED faults
     \/ /\ faults < MaxFaults
        /\ faults' = faults + 1
        /\ log' = [log EXCEPT ![Platform].handed = Some(merged),
                              ![Platform].error = Some("save")]
        /\ report' = HandleException(report, Platform, "OSError: cannot write")
        /\ UNCHANGED files
  /\ idx' = ContinueLoop(idx)
  /\ pc' = "path"
  /\ UNCHANGED <<config, backups, now, existing, merged, files0>>
  /\ UNCHANGED otherVars

\* Time passes between two platforms.
Tick ==
  /\ pc = "path"
  /\ idx > 1
  /\ idx <= Len(ALL_PLATFORMS)
  /\ now < MaxTime
  /\ now' = now + 1
  /\ UNCHANGED <<config, files, backups, pc, idx, report, existing, merged,
                 faults, log, files0>>
  /\ UNCHANGED otherVars

SyncNext ==
  \/ SyncValidate
  \/ SyncReturn
  \/ SyncCheckPath
  \/ SyncBackup
  \/ SyncLoad
  \/ SyncMerge
  \/ SyncSave
  \/ Tick

Init == SyncInit
Next == SyncNext
Spec == Init /\ [][Next]_vars

\* =========================================================================
\* Properties of sync_all
\* =========================================================================
ErrorResults(server) ==
  SelectSeq(validate_server(server), LAMBDA err : err.severity = "error")

ConfigHasError == \E n \in DOMAIN config : ErrorResults(config[n]) # <<>>

ErrorsWithPrefix(prefix) ==
  {i \in 1..Len(report.errors) : report.errors[i].prefix = prefix}

RECURSIVE SumOver(_, _)
SumOver(S, f) ==
  IF S = {} THEN 0
  ELSE LET x == CHOOSE y \in S : TRUE IN f[x] + SumOver(S \ {x}, f)

\* C2: for every adapter whose sync step completed without an exception, the
\* set handed to save is managed plus every loaded server whose name is not
\* in the canonical config; no orphan is dropped.
C2_OrphansHandedToSave ==
  \A p \in Platforms :
    (log[p].handed # None /\ log[p].error = None) =>
      /\ log[p].load # None
      /\ ~log[p].load[1].raised
      /\ LET loaded == log[p].load[1].value
             handed == log[p].handed[1]
         IN /\ DOMAIN handed = DOMAIN config \cup DOMAIN loaded
            /\ \A n \in DOMAIN config : handed[n] = config[n]
            /\ \A n \in DOMAIN loaded \ DOMAIN config : handed[n] = loaded[n]

C2_Witness ==
  \E p \in Platforms :
    /\ log[p].handed # None
    /\ log[p].error = None
    /\ DOMAIN config # {}
    /\ DOMAIN log[p].load[1].value \ DOMAIN config # {}
    /\ DOMAIN log[p].load[1].value \cap DOMAIN config # {}

\* C3: when some server has an error-severity validation result, nothing is
\* touched (no load, save or backup, every file unchanged) and the report
\* returned has platforms_synced = 0 and one error per error-severity result.
C3_ShortCircuitTouchesNothing ==
  ConfigHasError =>
    /\ files = files0
    /\ backups = InitialBackups
    /\ \A p \in Platforms : log[p] = NoLog
    /\ pc \in {"call", "done"}
    /\ pc = "done" =>
         /\ report.platforms_synced = 0
         /\ report.servers_synced = EmptyDict
         /\ Len(report.errors) =
              SumOver(DOMAIN config, [n \in DOMAIN config |-> Len(ErrorResults(config[n]))])
         /\ \A n \in DOMAIN config : \A j \in 1..Len(ErrorResults(config[n])) :
              \E i \in 1..Len(report.errors) :
                report.errors[i] = ErrorMsg("Server", n, ErrorResults(config[n])[j].message)

C3_Witness ==
  /\ pc = "done"
  /\ Len(report.errors) = 2
  /\ Cardinality(DOMAIN config) = 3
  /\ \E p \in Platforms : files[p].exists

\* C4: in a run that passed validation every registered adapter is attempted;
\* an adapter without a config path, or whose backup, load or save raised,
\* leaves exactly one error entry carrying its platform name and a zero
\* count, and the adapters after it are processed all the same.
C4_EveryAdapterAttempted ==
  (~ConfigHasError /\ pc = "done") =>
    /\ DOMAIN report.servers_synced = Platforms
    /\ \A p \in Platforms :
         /\ ~files0[p].exists => log[p].error = Some("no path")
         /\ (log[p].load # None /\ log[p].load[1].raised) => log[p].error = Some("load")
         /\ log[p].error # None =>
              /\ Cardinality(ErrorsWithPrefix(p)) = 1
              /\ report.servers_synced[p] = 0
         /\ log[p].error = None =>
              /\ ErrorsWithPrefix(p) = {}
              /\ log[p].handed # None
              /\ report.servers_synced[p] = Cardinality(DOMAIN log[p].handed[1])

C4_Witness ==
  /\ pc = "done"
  /\ log["Claude Code"].error = Some("no path")
  /\ log["Gemini CLI"].error = None
  /\ log["Codex CLI"].error = Some("backup")
  /\ log["Kilo Code"].error = None
  /\ log["Kilo Code"].handed # None

\* C5: a backup holding the file's current content exists in the backup
\* directory from the backup step until the save; every file that sync_all
\* changed was backed up, in this pass, with the content it had before; a
\* platform whose backup failed keeps its file.
C5_BackupBeforeOverwrite ==
  /\ pc \in {"load", "merge", "save"} =>
       /\ log[Platform].backup = Some(files[Platform])
       /\ \E e \in backups :
            /\ e.isFile
            /\ e.name = BackupNameFor(ConfigFileName[Platform], now)
            /\ e.content = files[Platform]
  /\ \A p \in Platforms :
       /\ files[p] # files0[p] => log[p].backup = Some(files0[p])
       /\ log[p].pre # None => log[p].backup = log[p].pre
       /\ log[p].error = Some("backup") => files[p] = files0[p]

C5_Witness ==
  \E p \in Platforms :
    /\ files0[p].exists
    /\ files[p] # files0[p]
    /\ log[p].backup = Some(files0[p])

\* =========================================================================
\* merge_servers called on its own
\* =========================================================================
\* sync_all is not running.
SyncOff ==
  /\ config = EmptyDict
  /\ pc = "off"
  /\ idx = 0
  /\ report = SyncReport(0, 0)
  /\ existing = EmptyDict
  /\ merged = EmptyDict
  /\ faults = 0
  /\ log = [p \in Platforms |-> NoLog]

syncOnlyVars == <<config, pc, idx, report, existing, merged, faults, log, files0>>

NamePool == << <<"a">>, <<"b">>, <<"c">>, <<"d">> >>
MergeNames == {NamePool[i] : i \in 1..MaxNames}

\* Two different definitions for every name.
MergeValues(n) ==
  {StdioServer(n, <<"npx">>, <<>>, EmptyDict), StdioServer(n, <<"node">>, <<>>, EmptyDict)}

ServerMaps ==
  UNION {{m \in [D -> UNION {MergeValues(n) : n \in D}] : \A n \in D : m[n] \in MergeValues(n)} :
           D \in SUBSET MergeNames}

MergeInit ==
  /\ \E m \in ServerMaps, e \in ServerMaps :
       mergeCall = [op |-> "merge", managed |-> m, existing |-> e, result |-> None,
                    heap |-> [managed |-> m, existing |-> e], ref |-> None]
  /\ SyncOff
  /\ files = [p \in Platforms |-> NoFile]
  /\ files0 = files
  /\ backups = {}
  /\ now = 1
  /\ adapterOp = NoCall
  /\ made = EmptyDict
  /\ hc = NoCall
  /\ ExtraIdle

MergeCall ==
  /\ mergeCall.result = None
  /\ mergeCall' = [mergeCall EXCEPT
                     !.result = Some(merge_servers(mergeCall.managed, mergeCall.existing)),
                     !.heap = merge_servers_refs(mergeCall.heap).heap,
                     !.ref = Some(merge_servers_refs(mergeCall.heap).result)]
  /\ UNCHANGED <<syncOnlyVars, files, backups, now, adapterOp, made, hc, extraVars>>

MergeNext == MergeCall
SpecMerge == MergeInit /\ [][MergeNext]_vars

\* C1: the result of merge_servers has the keys of both arguments, every
\* key of managed maps to the managed entry, every other key to the existing
\* entry.
C1_MergeOverridesByName ==
  mergeCall.result # None =>
    LET r == mergeCall.result[1]
        managed == mergeCall.managed
        exist == mergeCall.existing
    IN /\ DOMAIN r = DOMAIN managed \cup DOMAIN exist
       /\ \A k \in DOMAIN managed : r[k] = managed[k]
       /\ \A k \in DOMAIN exist \ DOMAIN managed : r[k] = exist[k]

C1_Witness ==
  /\ mergeCall.result # None
  /\ \E k \in DOMAIN mergeCall.managed \cap DOMAIN mergeCall.existing :
       mergeCall.managed[k] # mergeCall.existing[k]
  /\ DOMAIN mergeCall.existing \ DOMAIN mergeCall.managed # {}

\* C18: after merge_servers the dicts passed as managed and existing hold the
\* entries they held before the call, and the dict returned is a new object,
\* neither of the two arguments.
C18_MergeLeavesInputs ==
  mergeCall.op = "merge" /\ mergeCall.result # None =>
    /\ mergeCall.heap["managed"] = mergeCall.managed
    /\ mergeCall.heap["existing"] = mergeCall.existing
    /\ mergeCall.ref # None
    /\ mergeCall.ref[1] \notin {"managed", "existing"}
    /\ mergeCall.heap[mergeCall.ref[1]] = mergeCall.result[1]

C18_Witness ==
  /\ mergeCall.op = "merge"
  /\ mergeCall.result # None
  /\ DOMAIN mergeCall.managed # {}
  /\ DOMAIN mergeCall.existing \ DOMAIN mergeCall.managed # {}
  /\ mergeCall.heap["managed"] = mergeCall.managed
  /\ mergeCall.heap[mergeCall.ref[1]] # mergeCall.managed

\* =========================================================================
\* One adapter's load and save called on its own file
\* =========================================================================
SrvAuth ==
  HttpServer(<<"api">>, <<"https", ":", "//", "host", "/mcp">>,
             (<<"Authorization">> :> <<"Bearer", " ", "${SETVAR}">>))
SrvQuote ==
  StdioServer(<<"q">>, <<"cmd", " ", "\"", "x", "\"">>, << <<"a", "\\", "b">> >>,
              (<<"KEY">> :> <<"v", "\"">>))
SrvDotted == StdioServer(<<"my", ".", "srv">>, <<"npx">>, <<>>, EmptyDict)
SrvNewline ==
  StdioServer(<<"nl">>, <<"npx">>, << <<"line1", "\n", "line2">> >>, EmptyDict)

AdapterServerSets ==
  {DictOf(ss) : ss \in SUBSET {SrvFs, SrvAuth, SrvQuote, SrvDotted, SrvNewline}}

AdapterFileChoices(p) ==
  IF IsToml(p) THEN {NoFile, TomlGoodFile, TomlMalformedFile, TomlInvalidFile}
  ELSE {NoFile, JsonGoodFile, JsonMalformedFile, JsonBadTypeFile, JsonInvalidFile}

AdapterInit ==
  /\ \E p \in Platforms : \E f \in AdapterFileChoices(p) :
       /\ files = [q \in Platforms |-> IF q = p THEN f ELSE NoFile]
       /\ adapterOp = [op |-> "new", p |-> p, servers |-> EmptyDict, pre |-> f,
                       out |-> NoCall, after |-> None]
  /\ SyncOff
  /\ files0 = files
  /\ backups = {}
  /\ now = 1
  /\ mergeCall = NoCall
  /\ made = EmptyDict
  /\ hc = NoCall
  /\ ExtraIdle

\* adapter.save(servers)
AdapterDoSave ==
  /\ \E servers \in AdapterServerSets :
       LET p == adapterOp.p
           out == AdapterSave(p, files[p], servers)
       IN /\ files' = [files EXCEPT ![p] = out.file]
          /\ adapterOp' = [op |-> "save", p |-> p, servers |-> servers, pre |-> files[p],
                           out |-> out, after |-> None]
  /\ UNCHANGED <<syncOnlyVars, backups, now, mergeCall, made, hc, extraVars>>

\* adapter.load(); after remembers the set a successful save wrote just before.
AdapterDoLoad ==
  /\ adapterOp.op # "load"
  /\ LET p == adapterOp.p
     IN adapterOp' = [op |-> "load", p |-> p, servers |-> EmptyDict, pre |-> files[p],
                      out |-> AdapterLoad(p, files[p]),
                      after |-> IF adapterOp.op = "save" /\ ~adapterOp.out.raised
                                THEN Some(adapterOp.servers) ELSE None]
  /\ UNCHANGED <<syncOnlyVars, files, backups, now, mergeCall, made, hc, extraVars>>

AdapterNext == AdapterDoSave \/ AdapterDoLoad
SpecAdapter == AdapterInit /\ [][AdapterNext]_vars

\* C7: after save, every top-level key or section other than the MCP-server
\* section that the file had before is still there with the same value.
C7_SavePreservesOtherKeys ==
  adapterOp.op = "save" =>
    \A k \in DOMAIN adapterOp.pre.other :
      /\ k \in DOMAIN files[adapterOp.p].other
      /\ files[adapterOp.p].other[k] = adapterOp.pre.other[k]

\* The entries of the file's server section, as parsed from the file.
RawEntries(p, file) ==
  IF IsToml(p) THEN TomlLoadServers(file.blocks).value ELSE file.servers

Parseable(p, file) ==
  /\ file.exists
  /\ file.ok
  /\ IsToml(p) => ~TomlLoadServers(file.blocks).raised

\* C8: load on a parseable file does not raise and returns exactly the
\* well-formed entries of the server section.
C8_LoadSkipsMalformed ==
  (adapterOp.op = "load" /\ Parseable(adapterOp.p, adapterOp.pre)) =>
    LET raw == RawEntries(adapterOp.p, adapterOp.pre)
        wellFormed == {n \in DOMAIN raw : ~dict_to_server(n, raw[n]).raised}
    IN /\ ~adapterOp.out.raised
       /\ DOMAIN adapterOp.out.value = wellFormed
       /\ \A n \in wellFormed : adapterOp.out.value[n] = dict_to_server(n, raw[n]).value

\* C9: load right after a successful save(S) returns S; for the stdio-only
\* adapter it returns the stdio servers of S.
C9_SaveLoadRoundTrip ==
  (adapterOp.op = "load" /\ adapterOp.after # None) =>
    LET S == adapterOp.after[1]
        expected == IF IsToml(adapterOp.p)
                    THEN [n \in {m \in DOMAIN S : S[m].type = "stdio"} |-> S[n]]
                    ELSE S
    IN /\ ~adapterOp.out.raised
       /\ adapterOp.out.value = expected

\* =========================================================================
\* An adapter's save, step by step: open(path, "w"), the writes, close
\* =========================================================================
\* The text of a platform file, in pieces: for JSON the opening brace, one
\* piece per top-level key, the closing brace and the trailing newline; for
\* TOML one piece per top-level key and per [mcp_servers.*] table and the
\* trailing newline.
FileText(p, file) ==
  LET keys == SetToSeq(DOMAIN file.other)
      others == [i \in 1..Len(keys) |-> [key |-> keys[i], value |-> file.other[keys[i]]]]
  IN IF ~file.ok THEN <<"}{">>
     ELSE IF IsToml(p) THEN others \o file.blocks \o <<"\n">>
     ELSE <<"{">> \o others \o <<[key |-> <<"mcpServers">>, value |-> file.servers]>>
          \o <<"}", "\n">>

\* What the path holds: the first n pieces of the text of the previous file
\* ("old") or of the file save builds ("new"), or nothing at all ("none")
\* when the file does not exist.
OnDisk(p, file, of) ==
  IF file.exists THEN [of |-> of, n |-> Len(FileText(p, file))] ELSE [of |-> "none", n |-> 0]

WriteInit ==
  /\ \E p \in {"Claude Code", "Gemini CLI", "Codex CLI", "Kilo Code"} :
       \E f \in AdapterFileChoices(p) :
         \E servers \in {DictOf({SrvFs}), DictOf({SrvFs, SrvAuth})} :
           /\ files = [q \in Platforms |-> IF q = p THEN f ELSE NoFile]
           /\ wr = [op |-> "write", p |-> p, servers |-> servers, pc |-> "start",
                    disk |-> OnDisk(p, f, "old"), seen |-> None]
  /\ SyncOff
  /\ files0 = files
  /\ backups = {}
  /\ now = 1
  /\ mergeCall = NoCall
  /\ adapterOp = NoCall
  /\ made = EmptyDict
  /\ hc = NoCall
  /\ valCall = NoCall
  /\ cleanupCall = NoCall
  /\ cli = NoCall
  /\ cfgFile = NoCfgFile
  /\ cfgCall = NoCall

writeFrame == <<syncOnlyVars, backups, now, mergeCall, adapterOp, made, hc, valCall,
                cleanupCall, cli, cfgFile, cfgCall>>

\* save up to open(path, "w") in write_json_file, or to path.write_text's
\* open in write_toml_simple: the file is created or truncated.  A JSON
\* adapter does not get here when the existing file cannot be read.
WriteOpen ==
  /\ wr.op = "write"
  /\ wr.pc = "start"
  /\ IF AdapterSave(wr.p, files[wr.p], wr.servers).raised
     THEN wr' = [wr EXCEPT !.pc = "raised"]
     ELSE wr' = [wr EXCEPT !.pc = "open", !.disk = [of |-> "new", n |-> 0]]
  /\ UNCHANGED <<files, writeFrame>>

\* The stream's buffer is flushed: some more of the text reaches the file.
WriteFlush ==
  /\ wr.op = "write"
  /\ wr.pc = "open"
  /\ LET text == FileText(wr.p, AdapterSave(wr.p, files[wr.p], wr.servers).file)
     IN \E k \in (wr.disk.n + 1)..Len(text) :
          wr' = [wr EXCEPT !.disk = [of |-> "new", n |-> k]]
  /\ UNCHANGED <<files, writeFrame>>

\* The with block ends (write_text returns): the rest is flushed and the file
\* is closed.
WriteClose ==
  /\ wr.op = "write"
  /\ wr.pc = "open"
  /\ LET out == AdapterSave(wr.p, files[wr.p], wr.servers)
     IN /\ wr' = [wr EXCEPT !.pc = "closed", !.disk = OnDisk(wr.p, out.file, "new")]
        /\ files' = [files EXCEPT ![wr.p] = out.file]
  /\ UNCHANGED writeFrame

\* The process is killed while the file is open.
WriteCrash ==
  /\ wr.op = "write"
  /\ wr.pc = "open"
  /\ wr' = [wr EXCEPT !.pc = "crashed"]
  /\ UNCHANGED <<files, writeFrame>>

\* Another process reads the file.
WriteRead ==
  /\ wr.op = "write"
  /\ wr.seen # Some(wr.disk)
  /\ wr' = [wr EXCEPT !.seen = Some(wr.disk)]
  /\ UNCHANGED <<files, writeFrame>>

WriteNext == WriteOpen \/ WriteFlush \/ WriteClose \/ WriteCrash \/ WriteRead
SpecWrite == WriteInit /\ [][WriteNext]_vars

\* The path holds a complete content: that of the previous file (nothing
\* when there was none) or that of the file save builds.
CompleteContent(d) ==
  \/ d = OnDisk(wr.p, files0[wr.p], "old")
  \/ d = OnDisk(wr.p, AdapterSave(wr.p, files0[wr.p], wr.servers).file, "new")

\* C22: at every point of an adapter's save, a crash or a concurrent read
\* included, the platform file holds the complete previous content or the
\* complete new content, never an empty or partial one.
C22_SaveIsAtomic ==
  wr.op = "write" =>
    /\ CompleteContent(wr.disk)
    /\ wr.seen # None => CompleteContent(wr.seen[1])

\* The same for the points at which the file is not open for writing.
C22_CompleteWhenNotOpen ==
  (wr.op = "write" /\ wr.pc \in {"start", "raised", "closed"}) => CompleteContent(wr.disk)

\* =========================================================================
\* create_backup called repeatedly on platform files
\* =========================================================================
BackupSources == {"Claude Code", "Gemini CLI"}

BackupInit ==
  /\ files = [p \in Platforms |-> IF p \in BackupSources THEN JsonGoodFile ELSE NoFile]
  /\ files0 = files
  /\ backups = {}
  /\ now = 1
  /\ made = [g \in {LeadingToken(ConfigFileName[p]) : p \in BackupSources} |-> <<>>]
  /\ SyncOff
  /\ mergeCall = NoCall
  /\ adapterOp = NoCall
  /\ hc = NoCall
  /\ ExtraIdle

\* create_backup(platform.config_path, backup_dir); made remembers the
\* timestamps of the backups made for the prefix.
BackupCreate ==
  /\ SumOver(DOMAIN made, [g \in DOMAIN made |-> Len(made[g])]) < MaxCreated
  /\ \E p \in BackupSources :
       \E out \in create_backup(ConfigFileName[p], files[p], backups, now) :
         /\ ~out.raised
         /\ backups' = out.dir
         /\ made' = [made EXCEPT ![out.value.stem] = Append(@, now)]
  /\ UNCHANGED <<syncOnlyVars, files, now, mergeCall, adapterOp, hc, extraVars>>

BackupTick ==
  /\ now < MaxBackupTime
  /\ now' = now + 1
  /\ UNCHANGED <<syncOnlyVars, files, backups, mergeCall, adapterOp, made, hc, extraVars>>

BackupNext == BackupCreate \/ BackupTick
SpecBackup == BackupInit /\ [][BackupNext]_vars

BackupsWithPrefix(g) == {e \in backups : e.isFile /\ e.name.stamp # None /\ e.name.stem = g}

DistinctStamps(q) == \A i, j \in 1..Len(q) : i # j => q[i] # q[j]

\* C6: once more than max_backups_per_platform backups have been made for a
\* prefix (each in a second of its own), exactly max_backups_per_platform
\* backups with that prefix remain, and no backup that was made and is gone
\* is newer than one that remains.
C6_RetentionKeepsNewest ==
  \A g \in DOMAIN made :
    (Len(made[g]) > max_backups_per_platform /\ DistinctStamps(made[g])) =>
      LET remaining == {e.name.stamp[1] : e \in BackupsWithPrefix(g)}
      IN /\ Cardinality(BackupsWithPrefix(g)) = max_backups_per_platform
         /\ \A r \in remaining : \A t \in Range(made[g]) \ remaining : r > t

\* C24: every backup file create_backup wrote has a name cleanup_old_backups
\* recognises as a backup, the names made from a source that starts with "."
\* included, so that no source file has more than max_backups_per_platform
\* backups retained.
C24_BackupsRecognisedAndBounded ==
  \A g \in DOMAIN made :
    /\ \A e \in BackupsWithPrefix(g) : BackupPatternMatches(e.name)
    /\ Cardinality(BackupsWithPrefix(g)) <= max_backups_per_platform

\* The same for the sources whose prefix is not empty.
C24_NonEmptyPrefixBounded ==
  \A g \in DOMAIN made \ {<<>>} :
    /\ \A e \in BackupsWithPrefix(g) : BackupPatternMatches(e.name)
    /\ Cardinality(BackupsWithPrefix(g)) <= max_backups_per_platform

\* C25: each successful create_backup adds a backup file that is distinct
\* from every backup that existed before the call; an earlier backup is never
\* overwritten, also not when the two are made within the same second.
C25_BackupNeverOverwrites ==
  [][\A g \in DOMAIN made :
       made'[g] # made[g] =>
         /\ \A e \in BackupsWithPrefix(g) : e.name.stamp # Some(now)
         /\ \E e \in backups' \ backups : e.name.stem = g /\ e.name.stamp = Some(now)]_vars

\* The same for the calls made in a second in which the prefix has no backup
\* yet.
C25_NewSecondAddsBackup ==
  [][\A g \in DOMAIN made :
       (made'[g] # made[g] /\ \A i \in 1..Len(made[g]) : made[g][i] # now) =>
         /\ \A e \in BackupsWithPrefix(g) : e.name.stamp # Some(now)
         /\ \E e \in backups' \ backups : e.name.stem = g /\ e.name.stamp = Some(now)]_vars

\* =========================================================================
\* health_check_stdio_server (utils/validation.py)
\* =========================================================================
HEALTH_CHECK_TIMEOUT == 5

\* A server whose env refers to a set and to an unset variable and overrides a
\* variable of the parent environment.
SrvEnv ==
  StdioServer(<<"envy">>, <<"node">>, <<>>,
              (<<"KEY">> :> <<"${UNSETVAR}", "/", "x">>)
                @@ (<<"TOKEN">> :> <<"pre", "${SETVAR}">>)
                @@ (<<"SETVAR">> :> <<"mine">>))
SrvPlainEnv == StdioServer(<<"plain">>, <<"node">>, <<>>, (<<"TOKEN">> :> <<"${SETVAR}">>))

HealthServers == {SrvFs, SrvApi, SrvGhost, SrvNoCommand, SrvEnv, SrvPlainEnv}
TimeoutArgs == {None, Some(2)}

\* What the spawned process writes before it exits.  A JSON response is the
\* object parsed from the first line that starts with "{".
ErrorFields ==
  {[isObject |-> TRUE, message |-> Some("boom")], [isObject |-> TRUE, message |-> None],
   [isObject |-> FALSE, message |-> None]}
ResultFields ==
  {[isObject |-> TRUE, serverInfo |-> Some([name |-> Some("srv"), version |-> Some("1.0")])],
   [isObject |-> TRUE, serverInfo |-> Some([name |-> None, version |-> None])],
   [isObject |-> TRUE, serverInfo |-> None],
   [isObject |-> FALSE, serverInfo |-> None]}

Responses ==
  {[jsonrpc |-> j, error |-> e, result |-> r] :
     j \in {None, Some("2.0"), Some("1.0")},
     e \in {None} \cup {Some(x) : x \in ErrorFields},
     r \in {None} \cup {Some(x) : x \in ResultFields}}

NoResponse == [jsonrpc |-> None, error |-> None, result |-> None]

Outputs ==
  {[kind |-> k, response |-> NoResponse] :
     k \in {"empty", "stderr only", "no json line", "invalid json", "undecodable"}}
  \cup {[kind |-> "json", response |-> r] : r \in Responses}

HcResult(success, text, detail) == [success |-> success, text |-> text, detail |-> detail]

\* Lines 294-339: from the captured output to the returned pair, or the
\* exception that escapes.
ParseOutput(output) ==
  LET response == output.response
  IN IF output.kind = "undecodable" THEN Raise("UnicodeDecodeError")
     ELSE IF output.kind = "stderr only"
       THEN Ok(HcResult(FALSE, "returned no response. stderr", "stderr"))
     ELSE IF output.kind = "empty" THEN Ok(HcResult(FALSE, "returned no response", ""))
     ELSE IF output.kind = "no json line"
       THEN Ok(HcResult(FALSE, "returned non-JSON response", ""))
     ELSE IF output.kind = "invalid json" THEN Ok(HcResult(FALSE, "returned invalid JSON", ""))
     ELSE IF response.jsonrpc = None
       THEN Ok(HcResult(FALSE, "response missing 'jsonrpc' field", ""))
     ELSE IF response.jsonrpc[1] # "2.0"
       THEN Ok(HcResult(FALSE, "has invalid JSON-RPC version", response.jsonrpc[1]))
     ELSE IF response.error # None THEN
       IF ~response.error[1].isObject THEN Raise("AttributeError: no attribute 'get'")
       ELSE Ok(HcResult(FALSE, "returned error",
                        IF response.error[1].message # None
                        THEN response.error[1].message[1] ELSE "str(error)"))
     ELSE IF response.result # None THEN
       IF ~response.result[1].isObject THEN Raise("AttributeError: no attribute 'get'")
       ELSE LET server_info == IF response.result[1].serverInfo # None
                               THEN response.result[1].serverInfo[1]
                               ELSE [name |-> None, version |-> None]
                nm == IF server_info.name # None THEN server_info.name[1] ELSE "unknown"
                ver == IF server_info.version # None THEN server_info.version[1] ELSE "unknown"
            IN Ok(HcResult(TRUE, "healthy", nm \o " v" \o ver))
     ELSE Ok(HcResult(FALSE, "response missing 'result' or 'error' field", ""))

\* The finally clause runs on every way out of the try block.
AfterTry_skipOnTimeout(exitPath) == IF exitPath = "timeout" THEN "exit" ELSE "finally"
AfterTry(exitPath) == "finally"

\* except subprocess.TimeoutExpired in the finally clause: kill the process.
OnGraceExpired == "kill"

\* os.environ.copy(), keyed like a server's env.
EnvironDict == [k \in {<<n>> : n \in DOMAIN Environ} |-> Environ[k[1]]]

\* Lines 252-256: every ${VAR} of the value is replaced by
\* os.environ.get(VAR, ""): the variable's value, or nothing when it is unset.
ExpandForSpawn(value) ==
  Flatten([i \in 1..Len(value) |->
             IF value[i] \in DOMAIN PlaceholderName
             THEN IF PlaceholderName[value[i]] \in DOMAIN Environ
                  THEN Environ[PlaceholderName[value[i]]] ELSE <<>>
             ELSE <<value[i]>>])

\* Lines 249-257: the env handed to subprocess.Popen.
SpawnEnv(server) ==
  [k \in DOMAIN EnvironDict \cup DOMAIN server.env |->
     IF k \in DOMAIN server.env THEN ExpandForSpawn(server.env[k]) ELSE EnvironDict[k]]

\* Lines 231-232: if timeout is None: timeout = HEALTH_CHECK_TIMEOUT
EffectiveTimeout_default(t) == HEALTH_CHECK_TIMEOUT
EffectiveTimeout(t) == IF t = None THEN HEALTH_CHECK_TIMEOUT ELSE t[1]

HealthInit ==
  /\ \E server \in HealthServers, t \in TimeoutArgs :
       hc = [op |-> "health", server |-> server, timeoutArg |-> t,
             timeout |-> EffectiveTimeout(t),
             pc |-> "check", process |-> "None", proc |-> "none", path |-> "",
             env |-> None,
             outcome |-> None, output |-> [kind |-> "none", response |-> NoResponse],
             terminateSent |-> FALSE, graceWaited |-> FALSE, graceExpired |-> FALSE,
             killed |-> FALSE]
  /\ SyncOff
  /\ files = [p \in Platforms |-> NoFile]
  /\ files0 = files
  /\ backups = {}
  /\ now = 1
  /\ mergeCall = NoCall
  /\ adapterOp = NoCall
  /\ made = EmptyDict
  /\ ExtraIdle

healthFrame == <<syncOnlyVars, files, backups, now, mergeCall, adapterOp, made, extraVars>>

\* Lines 234-244: the checks that return before anything is spawned.
HcPreCheck ==
  /\ hc.pc = "check"
  /\ LET server == hc.server
         early(text) == [hc EXCEPT !.pc = "returned", !.path = "precheck",
                                   !.outcome = Some(Ok(HcResult(FALSE, text, "")))]
     IN hc' = IF server.type # "stdio" THEN early("is not a stdio server")
              ELSE IF ~Truthy(server.command) THEN early("has no command specified")
              ELSE IF validate_command_exists(server.command[1]) # None
                THEN early("Command not found")
              ELSE [hc EXCEPT !.pc = "spawn"]
  /\ UNCHANGED healthFrame

\* Line 278: subprocess.Popen, which may raise an OSError.
HcSpawn ==
  /\ hc.pc = "spawn"
  /\ \/ hc' = [hc EXCEPT !.pc = "communicate", !.process = "Popen", !.proc = "running",
                         !.env = Some(SpawnEnv(hc.server))]
     \/ \E e \in {"command not found", "permission denied executing", "OS error"} :
          hc' = [hc EXCEPT !.pc = AfterTry("oserror"), !.path = "oserror",
                           !.outcome = Some(Ok(HcResult(FALSE, e, "")))]
  /\ UNCHANGED healthFrame

\* Lines 287-291: communicate returns the output of a process that has
\* exited, or raises TimeoutExpired and leaves the process running.
HcCommunicate ==
  /\ hc.pc = "communicate"
  /\ \/ \E o \in Outputs :
          hc' = [hc EXCEPT !.pc = "parse", !.proc = "exited", !.output = o]
     \/ hc' = [hc EXCEPT !.pc = AfterTry("timeout"), !.path = "timeout",
                         !.outcome = Some(Ok(HcResult(FALSE, "timed out after", hc.timeout)))]
  /\ UNCHANGED healthFrame

\* Lines 294-339.
HcParse ==
  /\ hc.pc = "parse"
  /\ hc' = [hc EXCEPT !.pc = AfterTry(hc.output.kind), !.path = hc.output.kind,
                      !.outcome = Some(ParseOutput(hc.output))]
  /\ UNCHANGED healthFrame

\* Lines 351-353: if process is not None: process.terminate()
HcFinally ==
  /\ hc.pc = "finally"
  /\ hc' = IF hc.process = "None" THEN [hc EXCEPT !.pc = "exit"]
           ELSE [hc EXCEPT !.pc = "wait", !.terminateSent = TRUE]
  /\ UNCHANGED healthFrame

\* Line 354: process.wait(timeout=1).  A running process exits on the
\* signal within the grace period, or it does not and TimeoutExpired is raised.
HcWait ==
  /\ hc.pc = "wait"
  /\ \/ hc' = [hc EXCEPT !.pc = "exit", !.proc = "exited", !.graceWaited = TRUE]
     \/ /\ hc.proc = "running"
        /\ hc' = [hc EXCEPT !.pc = OnGraceExpired, !.graceWaited = TRUE,
                            !.graceExpired = TRUE]
  /\ UNCHANGED healthFrame

\* Lines 356-357: process.kill(); process.wait()
HcKill ==
  /\ hc.pc = "kill"
  /\ hc' = [hc EXCEPT !.pc = "exit", !.proc = "exited", !.killed = TRUE]
  /\ UNCHANGED healthFrame

\* The function returns its pair, or the exception of the try block escapes.
HcExit ==
  /\ hc.pc = "exit"
  /\ hc' = [hc EXCEPT !.pc = IF hc.outcome[1].raised THEN "raised" ELSE "returned"]
  /\ UNCHANGED healthFrame

HealthNext ==
  \/ HcPreCheck
  \/ HcSpawn
  \/ HcCommunicate
  \/ HcParse
  \/ HcFinally
  \/ HcWait
  \/ HcKill
  \/ HcExit

SpecHealth == HealthInit /\ [][HealthNext]_vars

C12_ResponseDecisionOrder ==
  (hc.op = "health" /\ hc.output.kind = "json" /\ hc.pc \in {"returned", "raised"}) =>
    LET r == hc.output.response
        expected ==
          IF r.jsonrpc = None THEN HcResult(FALSE, "response missing 'jsonrpc' field", "")
          ELSE IF r.jsonrpc # Some("2.0")
            THEN HcResult(FALSE, "has invalid JSON-RPC version", r.jsonrpc[1])
          ELSE IF r.error # None
            THEN HcResult(FALSE, "returned error",
                          IF r.error[1].message # None THEN r.error[1].message[1]
                          ELSE "str(error)")
          ELSE IF r.result # None
            THEN HcResult(TRUE, "healthy",
                          (IF r.result[1].serverInfo # None
                              /\ r.result[1].serverInfo[1].name # None
                           THEN r.result[1].serverInfo[1].name[1] ELSE "unknown")
                          \o " v" \o
                          (IF r.result[1].serverInfo # None
                              /\ r.result[1].serverInfo[1].version # None
                           THEN r.result[1].serverInfo[1].version[1] ELSE "unknown"))
          ELSE HcResult(FALSE, "response missing 'result' or 'error' field", "")
    IN /\ hc.pc = "returned"
       /\ hc.outcome = Some(Ok(expected))

\* C27: health_check_stdio_server always returns a (success, message) pair
\* and never raises, whatever the server definition and the process output,
\* a response whose result or error is not a JSON object included.
C27_HealthCheckNeverRaises ==
  hc.op = "health" => hc.pc # "raised"

\* C28: the environment given to the spawned process is the parent
\* environment overlaid with the server's env, each value expanded as
\* expand_env_vars expands it: a placeholder of a set variable is replaced by
\* the value, a placeholder of an unset variable is left verbatim.
C28_SpawnEnvExpanded ==
  (hc.op = "health" /\ hc.env # None) =>
    /\ DOMAIN hc.env[1] = DOMAIN EnvironDict \cup DOMAIN hc.server.env
    /\ \A k \in DOMAIN hc.env[1] :
         hc.env[1][k] = IF k \in DOMAIN hc.server.env
                        THEN expand_env_vars(hc.server.env[k]) ELSE EnvironDict[k]

\* =========================================================================
\* validate_server called on its own
\* =========================================================================
ValidateInit ==
  /\ \E c \in {Some(<<"npx">>), Some(<<"node">>), Some(<<"nocmd">>),
                Some(<<"${UNSETVAR}">>), Some(<<>>), None},
        a \in {<<>>, << <<"-y">> >>, << <<"${UNSETVAR}">>, <<"${SETVAR}">> >>,
                << <<"${UNSETVAR}", "/", "${UNSETVAR}">> >>},
        e \in {EmptyDict, (<<"KEY">> :> <<"${UNSETVAR}">>),
                (<<"KEY">> :> <<"v">>) @@ (<<"TOKEN">> :> <<"${SETVAR}">>)} :
       valCall = [op |-> "validate",
                  server |-> MCPServer(<<"srv">>, "stdio", c, a, e, None, EmptyDict),
                  result |-> None]
  /\ SyncOff
  /\ files = [p \in Platforms |-> NoFile]
  /\ files0 = files
  /\ backups = {}
  /\ now = 1
  /\ mergeCall = NoCall
  /\ adapterOp = NoCall
  /\ made = EmptyDict
  /\ hc = NoCall
  /\ cleanupCall = NoCall
  /\ cli = NoCall
  /\ cfgFile = NoCfgFile
  /\ cfgCall = NoCall
  /\ wr = NoCall

ValidateCall ==
  /\ valCall.result = None
  /\ valCall' = [valCall EXCEPT !.result = Some(validate_server(valCall.server))]
  /\ UNCHANGED <<syncVars, mergeCall, adapterOp, made, hc, cleanupCall, cli, cfgFile, cfgCall, wr>>

SpecValidate == ValidateInit /\ [][ValidateCall]_vars

\* The number of ${VAR} references to an unset variable in a text.
UnsetRefs(text) == Len(SelectSeq(EnvVarRefs(text), LAMBDA v : v \notin DOMAIN Environ))

\* The items of a result with the given severity whose message names the field.
ItemsFor(result, severity, field) ==
  {i \in 1..Len(result) :
     /\ result[i].severity = severity
     /\ severity = "warning" => result[i].message[4] = field}

\* C16: validate_server on a stdio server returns one error item exactly when
\* the command does not resolve on the search path, one warning item per
\* reference to an unset variable in command, args and env values, naming the
\* field, and nothing else.
C16_ValidateStdioExact ==
  valCall.op = "validate" /\ valCall.result # None =>
    LET server == valCall.server
        result == valCall.result[1]
        resolves == server.command # None /\ server.command[1] \in PathCommands
        inCommand == IF server.command = None THEN 0 ELSE UnsetRefs(server.command[1])
        inArgs == SumOver(1..Len(server.args),
                          [i \in 1..Len(server.args) |-> UnsetRefs(server.args[i])])
        inEnv == SumOver(DOMAIN server.env,
                         [k \in DOMAIN server.env |-> UnsetRefs(server.env[k])])
    IN /\ Cardinality(ItemsFor(result, "error", "")) = IF resolves THEN 0 ELSE 1
       /\ Cardinality(ItemsFor(result, "warning", "command")) = inCommand
       /\ Cardinality(ItemsFor(result, "warning", "args")) = inArgs
       /\ Cardinality(ItemsFor(result, "warning", "env")) = inEnv
       /\ Len(result) = (IF resolves THEN 0 ELSE 1) + inCommand + inArgs + inEnv

\* =========================================================================
\* cleanup_old_backups called on a directory with other things in it
\* =========================================================================
\* The directory holds any of: backups of two prefixes with different
\* timestamps, a directory with a backup-shaped name, a file with another
\* name and a backup whose prefix is empty.
CleanupInit ==
  /\ backups \in SUBSET
       ({DirEntry(BackupName(g, Some(t), <<".", "json">>), TRUE, NoFile) :
           g \in {<<"claude">>, <<"settings">>}, t \in 1..MaxStamp}
        \cup {DirEntry(BackupName(<<"claude">>, Some(0), <<".", "json">>), FALSE, NoFile),
              DirEntry(BackupName(<<"notes">>, None, <<".", "txt">>), TRUE, NoFile),
              DirEntry(BackupName(<<>>, Some(1), <<".", "json">>), TRUE, NoFile)})
  /\ \E k \in {1, 2} : cleanupCall = [op |-> "new", before |-> backups, max |-> k]
  /\ SyncOff
  /\ files = [p \in Platforms |-> NoFile]
  /\ files0 = files
  /\ now = 1
  /\ mergeCall = NoCall
  /\ adapterOp = NoCall
  /\ made = EmptyDict
  /\ hc = NoCall
  /\ valCall = NoCall
  /\ cli = NoCall
  /\ cfgFile = NoCfgFile
  /\ cfgCall = NoCall
  /\ wr = NoCall

\* cleanup_old_backups(backup_dir, max_backups_per_platform)
CleanupCall ==
  /\ cleanupCall.op = "new"
  /\ \E d \in cleanup_old_backups(backups, cleanupCall.max) :
       /\ backups' = d
       /\ cleanupCall' = [cleanupCall EXCEPT !.op = "done"]
  /\ UNCHANGED <<syncOnlyVars, files, now, mergeCall, adapterOp, made, hc, valCall, cli,
                 cfgFile, cfgCall, wr>>

SpecCleanup == CleanupInit /\ [][CleanupCall]_vars

\* A name of the shape {prefix}_{8 digits}_{6 digits}.{ext}.
BackupShaped(name) ==
  /\ name.stem # <<>>
  /\ name.stamp # None
  /\ Len(name.ext) >= 2
  /\ name.ext[1] = "."

\* C17: cleanup_old_backups deletes only files with a backup-shaped name, and
\* from each prefix group only what that group has beyond the limit: a group
\* within the limit loses nothing, whatever the size of the other groups.
C17_CleanupFrame ==
  cleanupCall.op = "done" =>
    LET before == cleanupCall.before
        deleted == before \ backups
        inGroup(S, g) == {e \in S : e.isFile /\ BackupShaped(e.name) /\ e.name.stem = g}
    IN /\ backups \subseteq before
       /\ \A e \in deleted : e.isFile /\ BackupShaped(e.name)
       /\ \A g \in {e.name.stem : e \in before} :
            Cardinality(inGroup(deleted, g)) =
              IF Cardinality(inGroup(before, g)) > cleanupCall.max
              THEN Cardinality(inGroup(before, g)) - cleanupCall.max ELSE 0

C17_Witness ==
  /\ cleanupCall.op = "done"
  /\ \E e \in cleanupCall.before \ backups : e.name.stem = <<"claude">>
  /\ \E e \in backups : ~e.isFile
  /\ \E e \in backups : e.name.stamp = None
  /\ \E e \in backups : e.name.stem = <<>>
  /\ \E e \in backups : e.name.stem = <<"settings">>
  /\ \A e \in cleanupCall.before : e.name.stem = <<"settings">> => e \in backups

\* =========================================================================
\* Further properties of sync_all (checked under Spec)
\* =========================================================================
\* The number of server entries the platform's file holds.
ServersInFile(p, file) ==
  IF ~file.exists THEN 0
  ELSE IF IsToml(p) THEN Len(file.blocks)
  ELSE Cardinality(DOMAIN file.servers)

\* The platform's save ran to its end in this pass.
SaveSucceeded(p) == log[p].handed # None /\ log[p].error = None

\* C13: after a sync_all run that passes validation, servers_synced has one
\* entry per registered platform, platforms_synced is the number of platforms
\* for which at least one server was actually written to the platform's file,
\* and 0 <= platforms_synced <= platforms_total.
C13_ReportCounts ==
  (~ConfigHasError /\ pc = "done") =>
    /\ DOMAIN report.servers_synced = Platforms
    /\ report.platforms_synced =
         Cardinality({p \in Platforms : SaveSucceeded(p) /\ ServersInFile(p, files[p]) > 0})
    /\ 0 <= report.platforms_synced
    /\ report.platforms_synced <= report.platforms_total

\* The names of the platform file's entries that the canonical config lacks.
OrphanNames(p, file) ==
  IF Parseable(p, file) THEN DOMAIN RawEntries(p, file) \ DOMAIN config ELSE {}

\* C19: after sync_all, the on-disk entry of every orphan server (in the
\* platform file, not in the canonical config) is identical to its entry
\* before the sync, fields such as disabled and alwaysAllow included.
C19_OrphanEntryUntouched ==
  pc = "done" =>
    \A p \in Platforms : \A n \in OrphanNames(p, files0[p]) :
      /\ Parseable(p, files[p])
      /\ n \in DOMAIN RawEntries(p, files[p])
      /\ RawEntries(p, files[p])[n] = RawEntries(p, files0[p])[n]

\* C20: for a platform whose config file does not exist yet, sync_all skips
\* the backup, runs load, merge and save, so that the file is created with
\* the merged set, and records the platform's server count without an error.
C20_MissingFileIsCreated ==
  (~ConfigHasError /\ pc = "done") =>
    \A p \in Platforms :
      ~files0[p].exists =>
        /\ log[p].backup = None
        /\ log[p].error = None
        /\ ErrorsWithPrefix(p) = {}
        /\ log[p].handed = Some(config)
        /\ files[p].exists
        /\ report.servers_synced[p] = Cardinality(DOMAIN config)

\* C23: the backup prefixes derived from the config files of two distinct
\* registered platforms differ, so that the backups sync_all makes for one
\* platform never take the name of another platform's backups.
C23_DistinctBackupPrefixes ==
  \A p, q \in Platforms :
    (p # q /\ log[p].backup # None /\ log[q].backup # None) =>
      LeadingToken(ConfigFileName[p]) # LeadingToken(ConfigFileName[q])

\* The same for the platforms whose adapters are in platforms/.
C23_DistinctAmongShipped ==
  \A p, q \in Platforms \ {"Cline", "Roo Code"} :
    (p # q /\ log[p].backup # None /\ log[q].backup # None) =>
      LeadingToken(ConfigFileName[p]) # LeadingToken(ConfigFileName[q])

\* A server that can be started or reached: a stdio server whose command is
\* non-empty and resolves on the search path, an http server whose URL has an
\* http or https scheme and a host.
Runnable(server) ==
  IF server.type = "stdio"
  THEN Truthy(server.command) /\ server.command[1] \in PathCommands
  ELSE Truthy(server.url) /\ validate_url(server.url[1]) = None

\* C26: sync_all never writes to any platform a canonical stdio server whose
\* command is empty or does not resolve on the search path, nor an http
\* server whose URL lacks an http/https scheme or a host.
C26_OnlyRunnableServersWritten ==
  \A p \in Platforms :
    SaveSucceeded(p) => \A n \in DOMAIN config : Runnable(config[n])

\* The same for the servers that have a non-empty command or URL.
C26_NonEmptyOnlyRunnable ==
  \A p \in Platforms :
    SaveSucceeded(p) =>
      \A n \in DOMAIN config :
        (Truthy(config[n].command) \/ Truthy(config[n].url)) => Runnable(config[n])

\* =========================================================================
\* The canonical config file (config.py) and first_run_init (sync.py)
\* =========================================================================
\* The body of load_config's loop for one server definition.
ParseServer(server_name, server_config) ==
  IF "type" \notin DOMAIN server_config
  THEN Raise("ValueError: missing required 'type' field")
  ELSE IF server_config.type = "stdio" THEN
    IF "command" \notin DOMAIN server_config
    THEN Raise("ValueError: missing required 'command' field for stdio type")
    ELSE LET args == DictGet(server_config, "args", <<>>)
             env_dict == DictGet(server_config, "env", EmptyDict)
         IN Ok(MCPServer(server_name, "stdio",
                         Some(expand_env_vars(server_config.command[1])),
                         [i \in 1..Len(args) |-> expand_env_vars(args[i])],
                         [k \in DOMAIN env_dict |-> expand_env_vars(env_dict[k])],
                         None, EmptyDict))
  ELSE IF server_config.type = "http" THEN
    IF "url" \notin DOMAIN server_config
    THEN Raise("ValueError: missing required 'url' field for http type")
    ELSE LET headers == DictGet(server_config, "headers", EmptyDict)
         IN Ok(MCPServer(server_name, "http", None, <<>>, EmptyDict,
                         Some(expand_env_vars(server_config.url[1])),
                         [k \in DOMAIN headers |-> expand_env_vars(headers[k])]))
  ELSE Raise("ValueError: invalid type")

\* load_config(path): the Config, or the exception raised.
load_config(file) ==
  IF ~file.exists THEN Raise("FileNotFoundError: Config file not found")
  ELSE IF ~file.ok THEN Raise("JSONDecodeError")
  ELSE IF file.mcpx = None THEN Raise("ValueError: Missing required 'mcpx' section in config")
  ELSE IF file.mcpx[1] = None
  THEN Raise("ValueError: Missing required 'version' field in 'mcpx' section")
  ELSE IF file.servers = None
  THEN Raise("ValueError: Missing required 'servers' section in config")
  ELSE LET servers_data == file.servers[1]
           parsed == [n \in DOMAIN servers_data |-> ParseServer(n, servers_data[n])]
           bad == {n \in DOMAIN servers_data : parsed[n].raised}
       IN IF bad # {}
          THEN Raise(parsed[CHOOSE n \in bad : TRUE].value)
          ELSE Ok([version |-> file.mcpx[1][1],
                   servers |-> [n \in DOMAIN servers_data |-> parsed[n].value]])

\* The server_data dict save_config and first_run_init build for one server.
ServerData(server) ==
  LET base == [type |-> server.type]
  IN IF server.type = "stdio" THEN
       LET d1 == IF Truthy(server.command)
                 THEN DictWith(base, "command", server.command) ELSE base
           d2 == IF server.args # <<>> THEN DictWith(d1, "args", server.args) ELSE d1
       IN IF server.env # EmptyDict THEN DictWith(d2, "env", server.env) ELSE d2
     ELSE IF server.type = "http" THEN
       LET d1 == IF Truthy(server.url) THEN DictWith(base, "url", server.url) ELSE base
       IN IF server.headers # EmptyDict THEN DictWith(d1, "headers", server.headers) ELSE d1
     ELSE base

\* save_config(path, config): the file written.
save_config(version, servers) ==
  CfgFile(TRUE, Some(Some(version)), Some([n \in DOMAIN servers |-> ServerData(servers[n])]))

\* remove_server_from_config(path, server_name): the exception raised, or the
\* returned flag with the file afterwards.
remove_server_from_config(file, server_name) ==
  LET loaded == load_config(file)
  IN IF loaded.raised THEN [raised |-> TRUE, value |-> loaded.value, file |-> file]
     ELSE IF server_name \notin DOMAIN loaded.value.servers
     THEN [raised |-> FALSE, value |-> FALSE, file |-> file]
     ELSE LET new_servers == [n \in DOMAIN loaded.value.servers \ {server_name} |->
                                loaded.value.servers[n]]
          IN [raised |-> FALSE, value |-> TRUE,
              file |-> save_config(loaded.value.version, new_servers)]

\* first_run_init(): the config file written.  The loop skips a platform
\* without a config path and a platform whose load raises; all_servers.update
\* lets a later platform of the registry override an earlier one, so a name
\* ends with the server of the last platform that holds it.  (loads is bound
\* by a set constructor so that every platform is loaded once.)
first_run_init(fs) ==
  CHOOSE written \in
    {LET scanned == {i \in 1..Len(ALL_PLATFORMS) :
                       config_path(fs[ALL_PLATFORMS[i]]) # None /\ ~loads[i].raised}
         holders(n) == {i \in scanned : n \in DOMAIN loads[i].value}
         last(n) == CHOOSE i \in holders(n) : \A j \in holders(n) : j <= i
         names == UNION {DOMAIN loads[i].value : i \in scanned}
     IN CfgFile(TRUE, Some(Some(<<"1", ".", "0">>)),
                Some([n \in names |-> ServerData(loads[last(n)].value[n])])) :
     loads \in {[i \in 1..Len(ALL_PLATFORMS) |->
                   AdapterLoad(ALL_PLATFORMS[i], fs[ALL_PLATFORMS[i]])]}} : TRUE

\* add_server_to_config(path, server): the exception raised, or the file
\* afterwards.
add_server_to_config(file, server) ==
  LET loaded == IF file.exists THEN load_config(file)
                ELSE Ok([version |-> <<"1", ".", "0">>, servers |-> EmptyDict])
  IN IF loaded.raised THEN [raised |-> TRUE, value |-> loaded.value, file |-> file]
     ELSE [raised |-> FALSE, value |-> TRUE,
           file |-> save_config(loaded.value.version,
                                DictWith(loaded.value.servers, server.name, server))]

\* =========================================================================
\* The functions of config.py and first_run_init called on the config file
\* =========================================================================
\* A stdio server whose command is null, as an adapter's load returns it for
\* an entry {"command": null}.
SrvNullCommand == MCPServer(<<"nul">>, "stdio", None, <<>>, EmptyDict, None, EmptyDict)

\* The config file before the calls: missing, or with definitions that hold
\* placeholders of a set and of an unset variable.
StoredConfigChoices ==
  LET fs == [type |-> "stdio", command |-> Some(<<"npx">>),
             args |-> << <<"-y">>, <<"${UNSETVAR}">> >>]
      db == [type |-> "stdio", command |-> Some(<<"node">>),
             env |-> (<<"TOKEN">> :> <<"${SETVAR}">>)]
      api == [type |-> "http", url |-> Some(<<"https", ":", "//", "host", "/mcp">>)]
      version == Some(Some(<<"1", ".", "0">>))
  IN {NoCfgFile,
      CfgFile(TRUE, version, Some((<<"fs">> :> fs) @@ (<<"api">> :> api))),
      CfgFile(TRUE, version, Some((<<"fs">> :> fs) @@ (<<"db">> :> db)))}

\* The platform files first_run_init finds: entries with a command, with an
\* empty command and with a null command.
FirstRunFileChoices ==
  LET blank == File(TRUE, EmptyDict,
                    (<<"old">> :> EntryOrphan) @@ (<<"blank">> :> [command |-> Some(<<>>)]),
                    <<>>)
      null == File(TRUE, EmptyDict, (<<"nul">> :> [command |-> None]), <<>>)
  IN {[p \in Platforms |-> IF p = "Kilo Code" THEN f ELSE IF p = "Claude Code" THEN g ELSE NoFile] :
        f \in {JsonGoodFile, blank}, g \in {NoFile, JsonGoodFile, null}}

ConfigInit ==
  /\ cfgFile \in StoredConfigChoices
  /\ cfgCall = [op |-> "new", name |-> <<>>, pre |-> cfgFile, out |-> NoCall, written |-> None]
  /\ SyncOff
  /\ files = [p \in Platforms |-> NoFile]
  /\ files0 = files
  /\ backups = {}
  /\ now = 1
  /\ mergeCall = NoCall
  /\ adapterOp = NoCall
  /\ made = EmptyDict
  /\ hc = NoCall
  /\ valCall = NoCall
  /\ cleanupCall = NoCall
  /\ cli = NoCall
  /\ wr = NoCall

configFrame == <<syncVars, mergeCall, adapterOp, made, hc, valCall, cleanupCall, cli, wr>>

\* first_run_init() with the platform files fs; written remembers the names
\* of the servers it wrote.
ConfigFirstRun ==
  /\ \E fs \in FirstRunFileChoices :
       LET file == first_run_init(fs)
       IN /\ cfgFile' = file
          /\ cfgCall' = [op |-> "first_run", name |-> <<>>, pre |-> cfgFile, out |-> Ok(TRUE),
                         written |-> Some(DOMAIN file.servers[1])]
  /\ UNCHANGED configFrame

\* save_config(path, Config("1.0", servers))
ConfigSave ==
  /\ \E servers \in {DictOf(ss) : ss \in {{SrvFs, SrvApi}, {SrvApi, SrvNoCommand},
                                           {SrvNullCommand}}} :
       /\ cfgFile' = save_config(<<"1", ".", "0">>, servers)
       /\ cfgCall' = [op |-> "save", name |-> <<>>, pre |-> cfgFile, out |-> Ok(TRUE),
                      written |-> Some(DOMAIN servers)]
  /\ UNCHANGED configFrame

\* add_server_to_config(path, server)
ConfigAdd ==
  /\ \E server \in {SrvFs, SrvGhost} :
       LET out == add_server_to_config(cfgFile, server)
       IN /\ cfgFile' = out.file
          /\ cfgCall' = [op |-> "add", name |-> server.name, pre |-> cfgFile,
                         out |-> [raised |-> out.raised, value |-> out.value],
                         written |-> None]
  /\ UNCHANGED configFrame

\* remove_server_from_config(path, server_name)
ConfigRemove ==
  /\ \E server_name \in {<<"fs">>, <<"nope">>} :
       LET out == remove_server_from_config(cfgFile, server_name)
       IN /\ cfgFile' = out.file
          /\ cfgCall' = [op |-> "remove", name |-> server_name, pre |-> cfgFile,
                         out |-> [raised |-> out.raised, value |-> out.value],
                         written |-> None]
  /\ UNCHANGED configFrame

\* load_config(path); written is kept when the file was just written by
\* first_run_init or save_config.
ConfigLoad ==
  /\ cfgCall.op # "load"
  /\ cfgCall' = [op |-> "load", name |-> <<>>, pre |-> cfgFile, out |-> load_config(cfgFile),
                 written |-> cfgCall.written]
  /\ UNCHANGED cfgFile
  /\ UNCHANGED configFrame

ConfigNext == ConfigFirstRun \/ ConfigSave \/ ConfigAdd \/ ConfigRemove \/ ConfigLoad
SpecConfig == ConfigInit /\ [][ConfigNext]_vars

\* C29: the config file written by first_run_init or save_config is loaded
\* back by load_config without an error and with the same server names,
\* whatever server set the adapters' load returned, a stdio server with an
\* empty or null command included.
C29_WrittenConfigLoadsBack ==
  (cfgCall.op = "load" /\ cfgCall.written # None) =>
    /\ ~cfgCall.out.raised
    /\ DOMAIN cfgCall.out.value.servers = cfgCall.written[1]

\* The same for the written files in which every stdio definition has a
\* command and every http definition a url.
C29_CompleteDefinitionsLoadBack ==
  (/\ cfgCall.op = "load"
   /\ cfgCall.written # None
   /\ \A n \in DOMAIN cfgFile.servers[1] :
        LET d == cfgFile.servers[1][n]
        IN IF d.type = "stdio" THEN "command" \in DOMAIN d ELSE "url" \in DOMAIN d) =>
    /\ ~cfgCall.out.raised
    /\ DOMAIN cfgCall.out.value.servers = cfgCall.written[1]

\* C30: add_server_to_config and remove_server_from_config leave the stored
\* definition of every other server as it was, ${VAR} placeholders included;
\* remove with a name the config lacks leaves the file unchanged and returns
\* False.
C30_OtherDefinitionsUnchanged ==
  (cfgCall.op \in {"add", "remove"} /\ ~cfgCall.out.raised) =>
    /\ cfgCall.pre.exists =>
         \A n \in DOMAIN cfgCall.pre.servers[1] \ {cfgCall.name} :
           /\ n \in DOMAIN cfgFile.servers[1]
           /\ cfgFile.servers[1][n] = cfgCall.pre.servers[1][n]
    /\ (cfgCall.op = "remove" /\ cfgCall.name \notin DOMAIN cfgCall.pre.servers[1]) =>
         /\ cfgFile = cfgCall.pre
         /\ cfgCall.out.value = FALSE

\* The same where no other definition refers to a variable that is set.
C30_UnchangedWithoutSetPlaceholders ==
  (/\ cfgCall.op \in {"add", "remove"}
   /\ ~cfgCall.out.raised
   /\ cfgCall.pre.exists =>
        \A n \in DOMAIN cfgCall.pre.servers[1] \ {cfgCall.name} :
          ServerData(load_config(cfgCall.pre).value.servers[n]) = cfgCall.pre.servers[1][n]) =>
    /\ cfgCall.pre.exists =>
         \A n \in DOMAIN cfgCall.pre.servers[1] \ {cfgCall.name} :
           /\ n \in DOMAIN cfgFile.servers[1]
           /\ cfgFile.servers[1][n] = cfgCall.pre.servers[1][n]
    /\ (cfgCall.op = "remove" /\ cfgCall.name \notin DOMAIN cfgCall.pre.servers[1]) =>
         /\ cfgFile = cfgCall.pre
         /\ cfgCall.out.value = FALSE

\* =========================================================================
\* The sync and remove commands (cli.py)
\* =========================================================================
EXIT_SUCCESS == 0
EXIT_PARTIAL == 1
EXIT_CONFIG_ERROR == 2
EXIT_FATAL == 3

\* The except clauses of cmd_sync and cmd_remove.
ExitForException(e) ==
  IF e = "FileNotFoundError: Config file not found" THEN EXIT_CONFIG_ERROR ELSE EXIT_FATAL

\* The canonical config file when the command starts: missing, not JSON,
\* without one of the required sections, with a server definition that lacks
\* its type, with a server that fails validation, and valid ones.
CfgFileChoices ==
  LET fs == [type |-> "stdio", command |-> Some(<<"npx">>),
             args |-> << <<"-y">>, <<"${SETVAR}">> >>]
      api == [type |-> "http", url |-> Some(<<"https", ":", "//", "host", "/mcp">>)]
      ghost == [type |-> "stdio", command |-> Some(<<"nocmd">>)]
      noType == [command |-> Some(<<"npx">>)]
      version == Some(Some(<<"1", ".", "0">>))
  IN {NoCfgFile,
      CfgFile(FALSE, None, None),
      CfgFile(TRUE, None, Some(EmptyDict)),
      CfgFile(TRUE, Some(None), Some(EmptyDict)),
      CfgFile(TRUE, version, None),
      CfgFile(TRUE, version, Some((<<"bad">> :> noType))),
      CfgFile(TRUE, version, Some((<<"fs">> :> fs) @@ (<<"ghost">> :> ghost))),
      CfgFile(TRUE, version, Some((<<"fs">> :> fs))),
      CfgFile(TRUE, version, Some((<<"fs">> :> fs) @@ (<<"api">> :> api)))}

\* The servers mcpx add is called for: one whose command is not on the search
\* path, a valid one, and one given without a command.
AddServers == {SrvGhost, SrvApi, SrvNoCommand}

\* One run of mcpx sync, mcpx remove fs, mcpx remove nope or mcpx add.  The
\* platform files hold what an earlier sync left there; Gemini CLI may be
\* missing.
CliInit ==
  /\ cfgFile \in CfgFileChoices
  /\ \E c \in {[op |-> "sync", name |-> <<>>], [op |-> "remove", name |-> <<"fs">>],
                [op |-> "remove", name |-> <<"nope">>]}
                 \cup {[op |-> "add", name |-> server.name] : server \in AddServers} :
       cli = [op |-> c.op, name |-> c.name, pc |-> "start", code |-> None,
              cfg0 |-> cfgFile, removed |-> FALSE]
  /\ files \in {[p \in Platforms |-> SyncNormalFile(p)],
                [p \in Platforms |-> IF p = "Gemini CLI" THEN NoFile ELSE SyncNormalFile(p)]}
  /\ files0 = files
  /\ backups = InitialBackups
  /\ now = 1
  /\ SyncOff
  /\ mergeCall = NoCall
  /\ adapterOp = NoCall
  /\ made = EmptyDict
  /\ hc = NoCall
  /\ valCall = NoCall
  /\ cleanupCall = NoCall
  /\ cfgCall = NoCall
  /\ wr = NoCall

cliFrame == <<files, backups, now, idx, report, existing, merged, faults, log, files0,
              mergeCall, adapterOp, made, hc, valCall, cleanupCall, cfgCall,
              wr>>

\* cmd_sync up to the call of sync_all (lines 39-93), or to its return when
\* the config is missing, cannot be loaded or fails validation.
CliSyncStart ==
  /\ cli.op = "sync"
  /\ cli.pc = "start"
  /\ IF ~cfgFile.exists
     THEN /\ cfgFile' = first_run_init(files)
          /\ cli' = [cli EXCEPT !.pc = "exit", !.code = Some(EXIT_SUCCESS)]
          /\ UNCHANGED <<config, pc>>
     ELSE LET loaded == load_config(cfgFile)
          IN /\ UNCHANGED cfgFile
             /\ IF loaded.raised
                THEN /\ cli' = [cli EXCEPT !.pc = "exit",
                                           !.code = Some(ExitForException(loaded.value))]
                     /\ UNCHANGED <<config, pc>>
                ELSE IF ValidationMessages(loaded.value.servers) # <<>>
                THEN /\ cli' = [cli EXCEPT !.pc = "exit", !.code = Some(EXIT_CONFIG_ERROR)]
                     /\ UNCHANGED <<config, pc>>
                ELSE /\ cli' = [cli EXCEPT !.pc = "syncing"]
                     /\ config' = loaded.value.servers
                     /\ pc' = "call"
  /\ UNCHANGED cliFrame

\* cmd_remove up to the call of sync_all (lines 501-517), or to its return
\* when the server is not in the config or the config cannot be loaded.
CliRemoveStart ==
  /\ cli.op = "remove"
  /\ cli.pc = "start"
  /\ LET out == remove_server_from_config(cfgFile, cli.name)
     IN IF out.raised
        THEN /\ cli' = [cli EXCEPT !.pc = "exit", !.code = Some(ExitForException(out.value))]
             /\ UNCHANGED <<cfgFile, config, pc>>
        ELSE IF ~out.value
        THEN /\ cli' = [cli EXCEPT !.pc = "exit", !.code = Some(EXIT_CONFIG_ERROR)]
             /\ UNCHANGED <<cfgFile, config, pc>>
        ELSE LET loaded == load_config(out.file)
             IN /\ cfgFile' = out.file
                /\ IF loaded.raised
                   THEN /\ cli' = [cli EXCEPT !.pc = "exit", !.removed = TRUE,
                                              !.code = Some(ExitForException(loaded.value))]
                        /\ UNCHANGED <<config, pc>>
                   ELSE /\ cli' = [cli EXCEPT !.pc = "syncing", !.removed = TRUE]
                        /\ config' = loaded.value.servers
                        /\ pc' = "call"
  /\ UNCHANGED cliFrame

\* cmd_add up to the call of sync_all (lines 426-463), or to its return when
\* the server has no command or URL, or the config cannot be loaded.
CliAddStart ==
  /\ cli.op = "add"
  /\ cli.pc = "start"
  /\ \E server \in AddServers :
       /\ server.name = cli.name
       /\ IF ~Truthy(IF server.type = "stdio" THEN server.command ELSE server.url)
          THEN /\ cli' = [cli EXCEPT !.pc = "exit", !.code = Some(EXIT_CONFIG_ERROR)]
               /\ UNCHANGED <<cfgFile, config, pc>>
          ELSE LET out == add_server_to_config(cfgFile, server)
                   loaded == load_config(out.file)
               IN IF out.raised
                  THEN /\ cli' = [cli EXCEPT !.pc = "exit", !.code = Some(EXIT_FATAL)]
                       /\ UNCHANGED <<cfgFile, config, pc>>
                  ELSE /\ cfgFile' = out.file
                       /\ IF loaded.raised
                          THEN /\ cli' = [cli EXCEPT !.pc = "exit", !.code = Some(EXIT_FATAL)]
                               /\ UNCHANGED <<config, pc>>
                          ELSE /\ cli' = [cli EXCEPT !.pc = "syncing"]
                               /\ config' = loaded.value.servers
                               /\ pc' = "call"
  /\ UNCHANGED cliFrame

\* if report.errors: return EXIT_PARTIAL else: return EXIT_SUCCESS
ExitForReport(rep) == IF rep.errors # <<>> THEN EXIT_PARTIAL ELSE EXIT_SUCCESS

\* cmd_sync after sync_all returned (lines 98-127).
CliSyncFinish ==
  /\ cli.op = "sync"
  /\ cli.pc = "syncing"
  /\ pc = "done"
  /\ cli' = [cli EXCEPT !.pc = "exit", !.code = Some(ExitForReport(report))]
  /\ UNCHANGED <<cfgFile, config, pc>>
  /\ UNCHANGED cliFrame

\* cmd_remove after sync_all returned (lines 519-538).
CliRemoveFinish ==
  /\ cli.op = "remove"
  /\ cli.pc = "syncing"
  /\ pc = "done"
  /\ cli' = [cli EXCEPT !.pc = "exit", !.code = Some(ExitForReport(report))]
  /\ UNCHANGED <<cfgFile, config, pc>>
  /\ UNCHANGED cliFrame

\* cmd_add after sync_all returned (lines 465-483).
CliAddFinish ==
  /\ cli.op = "add"
  /\ cli.pc = "syncing"
  /\ pc = "done"
  /\ cli' = [cli EXCEPT !.pc = "exit", !.code = Some(ExitForReport(report))]
  /\ UNCHANGED <<cfgFile, config, pc>>
  /\ UNCHANGED cliFrame

CliNext ==
  \/ CliSyncStart
  \/ CliRemoveStart
  \/ CliAddStart
  \/ CliAddFinish
  \/ CliSyncFinish
  \/ CliRemoveFinish
  \/ SyncNext

SpecCli == CliInit /\ [][CliNext]_vars

\* The canonical config the command found has a config-level error: it is
\* missing, is not JSON, lacks a required section or field, or holds a server
\* with an error-severity validation result.
ConfigLevelError(file) ==
  \/ load_config(file).raised
  \/ ValidationMessages(load_config(file).value.servers) # <<>>

\* C14: the sync command returns 0 only when every platform synced without
\* validation or sync errors, 1 when validation passed and some platform
\* recorded an error, 2 for every config-level error (canonical config
\* missing, malformed, incomplete, or with an error-severity validation
\* result), and 3 for none of these.
C14_SyncExitCodes ==
  (cli.op = "sync" /\ cli.pc = "exit") =>
    IF ConfigLevelError(cli.cfg0)
    THEN cli.code = Some(EXIT_CONFIG_ERROR)
    ELSE /\ pc = "done"
         /\ report.errors # <<>> => cli.code = Some(EXIT_PARTIAL)
         /\ report.errors = <<>> =>
              /\ cli.code = Some(EXIT_SUCCESS)
              /\ \A p \in Platforms : SaveSucceeded(p)

\* C15: after the remove command returned with a completed sync, no platform
\* file whose sync step succeeded still holds a server of the removed name.
C15_RemoveReachesPlatforms ==
  (cli.op = "remove" /\ cli.pc = "exit" /\ cli.removed /\ pc = "done") =>
    \A p \in Platforms :
      SaveSucceeded(p) => cli.name \notin DOMAIN RawEntries(p, files[p])

\* The canonical config file as the command leaves it holds a server with an
\* error-severity validation result.
AppliedConfigHasError ==
  /\ ~load_config(cfgFile).raised
  /\ ValidationMessages(load_config(cfgFile).value.servers) # <<>>

\* C21: when the config that sync, add or remove applies holds a server with
\* an error-severity validation result, the canonical config file, every
\* platform file and the backup directory are, when the command returns, as
\* they were when it started.
C21_ValidationErrorMutatesNothing ==
  (cli.op \in {"sync", "add", "remove"} /\ cli.pc = "exit" /\ AppliedConfigHasError) =>
    /\ cfgFile = cli.cfg0
    /\ files = files0
    /\ backups = InitialBackups

\* The same for the sync command alone.
C21_SyncMutatesNothing ==
  (cli.op = "sync" /\ cli.pc = "exit" /\ AppliedConfigHasError) =>
    /\ cfgFile = cli.cfg0
    /\ files = files0
    /\ backups = InitialBackups

\* The same for the platform files and the backup directory, for all three
\* commands.
C21_PlatformsUntouched ==
  (cli.op \in {"sync", "add", "remove"} /\ cli.pc = "exit" /\ AppliedConfigHasError) =>
    /\ files = files0
    /\ backups = InitialBackups

====
